---- MODULE Spec2Model ----
(***************************************************************************)
(* A model of blessed's Terminal (src/blessed/terminal.py): construction   *)
(* of Terminal objects against the process-wide curses state, and the      *)
(* keyboard decoder Terminal.kbhit / Terminal.inkey reading bytes from the *)
(* keyboard descriptor under timeouts; the use of one Terminal by a        *)
(* program (attribute resolution and its cache, the context managers       *)
(* writing to the stream and switching the keyboard mode), also by two     *)
(* threads at once; and the text operations (wrap, split_seqs) applied to  *)
(* bounded inputs.                                                         *)
(*                                                                         *)
(* Python values are represented as follows.  A str-valued argument that   *)
(* may be None is a string, None being "None".  An int-valued one (a file  *)
(* descriptor, a timeout) is an integer, None being the definition None.   *)
(* Bytes are integers 0..255, codepoints are integers, unicode text is a   *)
(* sequence of codepoints.  Time is counted in whole ticks.                *)
(***************************************************************************)
EXTENDS Integers, Sequences, FiniteSets, TLC

VARIABLES
    \* ---- process-wide state
    _CUR_TERM,              \* terminal.py global _CUR_TERM ("None" until set)
    initialised_setupterm,  \* _cursesmodule.c: setupterm() already done once
    warnings,               \* sequence of the warnings emitted by warnings.warn
    environ,                \* [TERM, stdout_isatty]: the process environment
                            \* (and colors, where the terminfo entry is read)
    nterms,                 \* number of Terminal objects constructed
    \* ---- the Terminal object most recently constructed, and its arguments
    term,                   \* its fields
    call,                   \* the arguments of its construction
    \* ---- the keyboard of that Terminal
    keyboard_buf,           \* self._keyboard_buf, a deque, leftmost first
    keyboard_decoder,       \* bytes held by self._keyboard_decoder
    kbq,                    \* bytes readable on the keyboard descriptor
    narrived,               \* number of bytes the keyboard has delivered
    \* ---- the frame of the running inkey() or kbhit() call
    pc,                     \* position of the caller, "idle" between calls
    now,                    \* time.time(), counted from the start of the call
    timeout,                \* argument timeout
    esc_delay,              \* argument esc_delay
    stime,                  \* local stime
    esctime,                \* local esctime, None until assigned
    ucs,                    \* local ucs
    ks,                     \* local ks
    \* ---- what the calls did (observations, never read by the program)
    outcome,                \* [op, how]: the last call and how it ended
    ret,                    \* the Keystroke the last inkey() returned
    unreturned,             \* codepoints decoded and not yet returned in an event
    misreturned,            \* an event returned text that was not next in line
    obs,                    \* what the running or last inkey() met and read
    \* ---- the Terminal object in use by the program
    cache,                  \* attributes set on the object by setattr, by name
    ncalls,                 \* resolver invocations so far, by name (observation)
    first,                  \* the value the first access of a name gave (observation)
    got,                    \* [attr, val, cached]: the last attribute access, its
                            \* value, and whether the object had the attribute
    output,                 \* what has been written to self.stream, in order
    ctxs,                   \* the with-blocks entered and not yet left, innermost last
    raised,                 \* the exception propagating through them, "None" if none
    tty_mode,               \* the terminal mode of the keyboard descriptor
    mode_touched,           \* tcgetattr/tcsetattr/setcbreak/setraw was called (observation)
    \* ---- threads of the program resolving attributes at once
    thr,                    \* the frame of each thread's attribute access
    \* ---- a call of a text operation
    arg_text,               \* argument text
    arg_width,              \* argument width
    kwargs,                 \* argument break_long_words: "absent", "False", "True"
    arg_maxsplit,           \* argument maxsplit, None when not given
    arg_fillchar,           \* argument fillchar
    calls,                  \* calls of formatting values being evaluated, outermost first
    result                  \* what the call returned

ctorVars == <<_CUR_TERM, initialised_setupterm, warnings, environ, nterms, term, call>>
kbdVars  == <<keyboard_buf, keyboard_decoder, kbq, narrived>>
frameVars == <<pc, now, timeout, esc_delay, stime, esctime, ucs, ks>>
obsVars  == <<outcome, ret, unreturned, misreturned, obs>>
useVars  == <<cache, ncalls, first, got, output, ctxs, raised, tty_mode, mode_touched>>
textArgs == <<arg_text, arg_width, kwargs, arg_maxsplit, arg_fillchar>>
textVars == <<textArgs, calls, result>>
\* What the construction of Terminals and the keyboard leave alone.
objVars  == <<useVars, thr, textVars>>
vars == <<ctorVars, kbdVars, frameVars, obsVars, objVars>>

----
\* Bounds of the model.
MaxTerms == 3       \* Terminal objects constructed in one process
MaxBytes == 4       \* bytes the keyboard delivers in one run
MaxDelay == 2       \* largest timeout and esc_delay a caller passes
MaxLen == 4         \* characters in a text given to wrap or split_seqs
MaxWidth == 3       \* the widest width given to wrap
MaxDepth == 2       \* with-blocks nested in one another
MaxOutput == 3      \* writes to the stream before the program stops entering blocks
MaxNodes == 4       \* calls and texts in one formatting expression

----
\* Python's None where an integer is expected (a descriptor, a timeout).
None == -1

\* sys.__stdin__.fileno() and sys.__stdout__.fileno().
StdinFd == 0
StdoutFd == 1

\* The terminal kinds the terminfo database knows; setupterm fails on others.
TermDB == {"xterm", "vt100"}

\* The arguments a caller may pass to Terminal().
Kinds == {"None", "", "xterm", "vt100", "bogus"}
Streams == {"None", "StringIO", "file", "pty"}
ForceStylings == {"False", "True", "None"}

\* Python truth of a force_styling argument.
Truthy(v) == v = "True"

\* stream.fileno(): a StringIO has no descriptor (io.UnsupportedOperation).
fileno(stream) ==
    CASE stream = "stdout" -> StdoutFd
      [] stream = "file" -> 3
      [] stream = "pty" -> 4
      [] OTHER -> None

\* os.isatty(fd)
isatty(fd, env) ==
    CASE fd = StdoutFd -> env.stdout_isatty
      [] fd = 4 -> TRUE
      [] OTHER -> FALSE

\* os.environ.get('TERM', 'unknown')
EnvTerm(env) == IF env.TERM = "None" THEN "unknown" ELSE env.TERM

\* curses.setupterm(kind, fd): TRUE when it returns, FALSE when it raises
\* curses.error. Python calls the C setupterm only the first time.
setupterm(kind, inited) == inited \/ kind \in TermDB

DoesStylingNoNoneCheck(is_a_tty, force_styling) ==
    is_a_tty \/ Truthy(force_styling)

\* self._does_styling as first computed from the stream and force_styling.
DoesStyling(is_a_tty, force_styling) ==
    (is_a_tty \/ Truthy(force_styling)) /\ force_styling # "None"

NextCurTermOverwrite(cur, kind) == kind

\* _CUR_TERM after a successful setupterm for a Terminal of this kind.
NextCurTerm(cur, kind) ==
    IF cur = "None" \/ kind = cur THEN kind ELSE cur

\* The warning that successful setupterm emits, if any.
KindWarning(cur, kind) ==
    IF cur = "None" \/ kind = cur THEN <<>> ELSE <<[what |-> "kind", kind |-> kind, cur |-> cur]>>

\* A constructor that warns of the failed setupterm and still styles.
Terminal__init__StillStyling(kind, stream, force_styling, cur, inited, env) ==
    LET stream_    == IF stream = "None" THEN "stdout" ELSE stream
        stream_kb  == IF stream = "None" THEN StdinFd ELSE None
        stream_fd  == fileno(stream_)
        is_a_tty   == stream_fd # None /\ isatty(stream_fd, env)
        does0      == DoesStyling(is_a_tty, force_styling)
        init_desc  == IF stream_fd = None THEN StdoutFd ELSE stream_fd
        kind_      == IF kind \in {"None", ""} THEN EnvTerm(env) ELSE kind
        ok         == setupterm(kind_, inited)
    IN  [self |-> [stream_kb |-> stream_kb, is_a_tty |-> is_a_tty,
                   does_styling |-> does0, init_descriptor |-> init_desc,
                   kind |-> kind_, stream |-> stream_],
         cur |-> IF does0 /\ ok THEN NextCurTerm(cur, kind_) ELSE cur,
         inited |-> inited \/ (does0 /\ ok),
         warned |-> IF ~does0 THEN <<>>
                    ELSE IF ok THEN KindWarning(cur, kind_)
                    ELSE <<[what |-> "setupterm", kind |-> kind_, cur |-> cur]>>,
         setupterm_ok |-> IF ~does0 THEN "uncalled"
                          ELSE IF ok THEN "ok" ELSE "failed"]

\* Terminal.__init__: the new object, and the process-wide state it leaves.
Terminal__init__(kind, stream, force_styling, cur, inited, env) ==
    LET stream_    == IF stream = "None" THEN "stdout" ELSE stream
        stream_kb  == IF stream = "None" THEN StdinFd ELSE None
        stream_fd  == fileno(stream_)
        is_a_tty   == stream_fd # None /\ isatty(stream_fd, env)
        does0      == DoesStyling(is_a_tty, force_styling)
        init_desc  == IF stream_fd = None THEN StdoutFd ELSE stream_fd
        kind_      == IF kind \in {"None", ""} THEN EnvTerm(env) ELSE kind
        ok         == setupterm(kind_, inited)
    IN  IF ~does0
        THEN [self |-> [stream_kb |-> stream_kb, is_a_tty |-> is_a_tty,
                        does_styling |-> FALSE, init_descriptor |-> init_desc,
                        kind |-> kind_, stream |-> stream_],
              cur |-> cur, inited |-> inited, warned |-> <<>>, setupterm_ok |-> "uncalled"]
        ELSE IF ~ok
        THEN [self |-> [stream_kb |-> stream_kb, is_a_tty |-> is_a_tty,
                        does_styling |-> FALSE, init_descriptor |-> init_desc,
                        kind |-> "None", stream |-> stream_],
              cur |-> cur, inited |-> inited,
              warned |-> <<[what |-> "setupterm", kind |-> kind_, cur |-> cur]>>,
              setupterm_ok |-> "failed"]
        ELSE [self |-> [stream_kb |-> stream_kb, is_a_tty |-> is_a_tty,
                        does_styling |-> TRUE, init_descriptor |-> init_desc,
                        kind |-> kind_, stream |-> stream_],
              cur |-> NextCurTerm(cur, kind_), inited |-> TRUE,
              warned |-> KindWarning(cur, kind_), setupterm_ok |-> "ok"]

\* The state before any Terminal exists.
NoTerm == [stream_kb |-> None, is_a_tty |-> FALSE, does_styling |-> FALSE,
           init_descriptor |-> None, kind |-> "None", stream |-> "None"]
NoCall == [kind |-> "None", stream |-> "None", force_styling |-> "False",
           setupterm_ok |-> "uncalled", cur_before |-> "None"]
Environs == [TERM : {"None", "xterm"}, stdout_isatty : BOOLEAN]

----
\* The Terminal() action: construct one more Terminal in this process.
Terminal(kind, stream, force_styling) ==
    /\ nterms < MaxTerms
    /\ LET r == Terminal__init__(kind, stream, force_styling,
                                 _CUR_TERM, initialised_setupterm, environ)
       IN  /\ term' = r.self
           /\ _CUR_TERM' = r.cur
           /\ initialised_setupterm' = r.inited
           /\ warnings' = warnings \o r.warned
           /\ call' = [kind |-> kind, stream |-> stream,
                       force_styling |-> force_styling,
                       setupterm_ok |-> r.setupterm_ok, cur_before |-> _CUR_TERM]
    /\ nterms' = nterms + 1
    /\ UNCHANGED <<environ, kbdVars, frameVars, obsVars, objVars>>

----
\* The keyboard.

\* The bytes the modelled keyboard can deliver: ESC, '[', 'A', and the two
\* bytes 0xC3 0xA9 of U+00E9 in UTF-8 (the locale's preferred encoding).
Alphabet == {27, 91, 65, 195, 169}

Max(a, b) == IF a >= b THEN a ELSE b

RECURSIVE Reverse(_)
Reverse(s) == IF s = <<>> THEN <<>> ELSE Append(Reverse(Tail(s)), Head(s))

IsPrefix(p, s) == Len(p) <= Len(s) /\ SubSeq(s, 1, Len(p)) = p

\* collections.deque: `while buf: ucs += buf.pop()` pops from the right.
PopAll(dq) == Reverse(dq)

\* collections.deque.extendleft(s): appendleft of each element of s in turn.
Extendleft(dq, s) == Reverse(s) \o dq

\* A decoder that keeps nothing between calls: a byte that is no character
\* by itself yields nothing and is forgotten.
decodeStateless(buf, byte) ==
    IF byte < 128
    THEN [ok |-> TRUE, out |-> <<byte>>, buf |-> <<>>]
    ELSE [ok |-> TRUE, out |-> <<>>, buf |-> <<>>]

\* self._keyboard_decoder.decode(byte, final=False) of the strict UTF-8
\* incremental decoder holding buf: [ok, out, buf]; ok = FALSE is
\* UnicodeDecodeError (the held bytes stay). One- and two-byte forms.
decode(buf, byte) ==
    IF buf = <<>>
    THEN IF byte < 128
         THEN [ok |-> TRUE, out |-> <<byte>>, buf |-> <<>>]
         ELSE IF byte >= 194 /\ byte < 224
         THEN [ok |-> TRUE, out |-> <<>>, buf |-> <<byte>>]
         ELSE [ok |-> FALSE, out |-> <<>>, buf |-> buf]
    ELSE IF byte >= 128 /\ byte < 192
         THEN [ok |-> TRUE, out |-> <<(buf[1] - 192) * 64 + (byte - 128)>>,
               buf |-> <<>>]
         ELSE [ok |-> FALSE, out |-> <<>>, buf |-> buf]

\* keyboard.Keystroke(ucs, code, name)
Keystroke(ucs_, code) ==
    [ucs |-> ucs_, code |-> code, is_sequence |-> code # "None"]
NullKs == Keystroke(<<>>, "None")

\* self._keymap: built only when the Terminal does styling.
keymap(self) ==
    IF self.does_styling
    THEN {[seq |-> <<27>>, code |-> "KEY_ESCAPE"],
          [seq |-> <<27, 91, 65>>, code |-> "KEY_UP"]}
    ELSE {}

\* self.KEY_ESCAPE: set by __init__ when styling, else the null attribute.
KEY_ESCAPE(self) ==
    IF self.does_styling THEN "KEY_ESCAPE" ELSE "NullCallableString"

\* keyboard.resolve_sequence(text, mapper, codes)
resolve_sequence(text, mapper) ==
    LET matches == {m \in mapper : IsPrefix(m.seq, text)}
    IN  IF matches # {}
        THEN LET best == CHOOSE m \in matches :
                             \A o \in matches : Len(o.seq) <= Len(m.seq)
             IN  Keystroke(best.seq, best.code)
        ELSE IF text # <<>> THEN Keystroke(<<text[1]>>, "None") ELSE NullKs

\* inkey's `resolve`, the partial application over this Terminal's tables.
resolve(text) == resolve_sequence(text, keymap(term))

_timeleftNoneIsZero(stime_, timeout_) ==
    IF timeout_ # None /\ timeout_ # 0
    THEN Max(0, timeout_ - (now - stime_))
    ELSE 0

\* A _timeleft that forgets the time elapsed since stime.
_timeleftWhole(stime_, timeout_) == timeout_

\* inkey._timeleft(stime, timeout)
_timeleft(stime_, timeout_) ==
    IF timeout_ # None
    THEN IF timeout_ = 0 THEN 0 ELSE Max(0, timeout_ - (now - stime_))
    ELSE None

selectEmptySet(fd, tmo) ==
    IF fd # None /\ kbq # <<>> THEN "True"
    ELSE IF tmo # None /\ tmo = 0 THEN "False"
    ELSE "blocked"

\* select.select([fd], [], [], tmo) == ([fd], [], []), for a select with tmo
\* still to wait: "TypeError" when fd is None, "blocked" while it waits.
select(fd, tmo) ==
    IF fd = None THEN "TypeError"
    ELSE IF kbq # <<>> THEN "True"
    ELSE IF tmo # None /\ tmo = 0 THEN "False"
    ELSE "blocked"

\* formatters.resolve_attribute(term, attr): a formatting value whose text is
\* the capability's escape sequence, written as one token naming it.
resolve_attribute(self, attr) ==
    [type |-> "FormattingString", text |-> <<[cap |-> attr]>>]

\* A __getattr__ that asks the resolver whether or not the Terminal styles.
__getattr__NoShortCircuit(self, attr) == resolve_attribute(self, attr)

\* Terminal.__getattr__(attr): the value of an attribute the object lacks.
__getattr__(self, attr) ==
    IF ~self.does_styling
    THEN [type |-> "NullCallableString", text |-> <<>>]
    ELSE resolve_attribute(self, attr)

\* self.keyboard_fd: no such attribute is ever set, so __getattr__ answers.
keyboard_fd(self) == __getattr__(self, "keyboard_fd")

\* Terminal.kbhit(timeout), with tmo the time its select has still to wait.
kbhit(self, tmo) ==
    IF keyboard_fd(self).type = "NoneType" THEN "False"
    ELSE select(self.stream_kb, tmo)

----
\* The arguments a caller passes as timeout and as esc_delay:
\* no wait and the longest wait, and for timeout also None.
Timeouts == {None, 0, MaxDelay}
EscDelays == {0, MaxDelay}

\* The clock is followed for as long as the longest wait of a call with a
\* timeout: timeout, then esc_delay.
MaxTime == 2 * MaxDelay

NoObs == [call_buf |-> <<>>, call_dec |-> <<>>, call_kbq |-> <<>>, rd |-> <<>>]
NoOutcome == [op |-> "none", how |-> "none"]

\* The locals of a call that has ended, or has not begun.
NoFrame ==
    /\ pc' = "idle"
    /\ now' = 0
    /\ timeout' = None
    /\ esc_delay' = 0
    /\ stime' = 0
    /\ esctime' = None
    /\ ucs' = <<>>
    /\ ks' = NullKs

\* The keyboard delivers one more byte.
Arrive(byte) ==
    /\ nterms > 0
    /\ narrived < MaxBytes
    /\ kbq' = Append(kbq, byte)
    /\ narrived' = narrived + 1
    /\ UNCHANGED <<objVars, ctorVars, keyboard_buf, keyboard_decoder, frameVars, obsVars>>

EscTimeleftFromStime == _timeleft(stime, esc_delay)

\* _timeleft(esctime, esc_delay), the wait of the Escape loop's kbhit.
EscTimeleft == _timeleft(esctime, esc_delay)

\* The caller waits inside select(): nothing to read and time still to wait.
Blocked ==
    \/ pc = "block" /\ ks.ucs = <<>>
                    /\ kbhit(term, _timeleft(stime, timeout)) = "blocked"
    \/ pc = "esc" /\ ks.code = KEY_ESCAPE(term)
                  /\ kbhit(term, EscTimeleft) = "blocked"
    \/ pc = "kbhit" /\ kbhit(term, _timeleft(stime, timeout)) = "blocked"

\* One tick of the clock while a call waits in select(). The other steps of a
\* call take no time, so a select begun with _timeleft(t0, d) to wait has, at
\* any later time, _timeleft(t0, d) of that time left.
Tick ==
    /\ Blocked
    /\ now < MaxTime
    /\ now' = now + 1
    /\ UNCHANGED <<objVars, ctorVars, kbdVars, pc, timeout, esc_delay, stime, esctime, ucs, ks, obsVars>>

\* An exception leaves inkey or kbhit: the locals, ucs among them, are gone.
Raise(op, exc) ==
    /\ NoFrame
    /\ outcome' = [op |-> op, how |-> exc]
    /\ ret' = NullKs
    /\ UNCHANGED <<keyboard_buf, unreturned, misreturned>>

RemainderAll(ucs_, ks_) == ucs_

\* ucs[len(ks):]
Remainder(ucs_, ks_) == SubSeq(ucs_, Len(ks_.ucs) + 1, Len(ucs_))

\* inkey's last two lines: buffer the remaining text and return ks.
Return ==
    /\ NoFrame
    /\ keyboard_buf' = Extendleft(keyboard_buf, Remainder(ucs, ks))
    /\ ret' = ks
    /\ outcome' = [op |-> "inkey", how |-> "returned"]
    /\ IF IsPrefix(ks.ucs, unreturned)
       THEN /\ unreturned' = SubSeq(unreturned, Len(ks.ucs) + 1, Len(unreturned))
            /\ UNCHANGED misreturned
       ELSE /\ misreturned' = TRUE
            /\ UNCHANGED unreturned
    /\ UNCHANGED obs

ResolveAfterReadOnce(text, ks_) ==
    IF ks_.ucs # <<>> THEN ks_ ELSE resolve(text)

\* `ks = resolve(text=ucs)` after a read in the second and third loops.
ResolveAfterRead(text, ks_) == resolve(text)

\* `ucs += _decode_next()` and, past the first loop, `ks = resolve(text=ucs)`:
\* os.read of one byte, decoded; UnicodeDecodeError leaves inkey.
ReadNext(re_resolve) ==
    LET byte == Head(kbq)
        d == decode(keyboard_decoder, byte)
    IN  /\ kbq' = Tail(kbq)
        /\ obs' = [obs EXCEPT !.rd = Append(@, byte)]
        /\ IF d.ok
           THEN /\ keyboard_decoder' = d.buf
                /\ ucs' = ucs \o d.out
                /\ ks' = IF re_resolve THEN ResolveAfterRead(ucs \o d.out, ks) ELSE ks
                /\ unreturned' = unreturned \o d.out
                /\ UNCHANGED <<pc, now, timeout, esc_delay, stime, esctime,
                               keyboard_buf, outcome, ret, misreturned>>
           ELSE /\ Raise("inkey", "UnicodeDecodeError")
                /\ UNCHANGED keyboard_decoder
        /\ UNCHANGED <<objVars, ctorVars, narrived>>

\* inkey(timeout, esc_delay) is called: stime is taken and the deque drained.
inkey(timeout_, esc_delay_) ==
    /\ nterms > 0
    /\ pc = "idle"
    /\ pc' = "drain"
    /\ timeout' = timeout_
    /\ esc_delay' = esc_delay_
    /\ stime' = now
    /\ esctime' = None
    /\ ucs' = PopAll(keyboard_buf)
    /\ keyboard_buf' = <<>>
    /\ ks' = NullKs
    /\ outcome' = [op |-> "inkey", how |-> "running"]
    /\ ret' = NullKs
    /\ obs' = [call_buf |-> PopAll(keyboard_buf), call_dec |-> keyboard_decoder,
               call_kbq |-> kbq, rd |-> <<>>]
    /\ UNCHANGED <<objVars, ctorVars, keyboard_decoder, kbq, narrived, now,
                   unreturned, misreturned>>

\* `while self.kbhit(): ucs += _decode_next()`: a byte is there and is read.
DrainRead ==
    /\ pc = "drain"
    /\ kbhit(term, 0) = "True"
    /\ ReadNext(FALSE)

\* `while self.kbhit()`: kbhit raises (select on a descriptor of None).
DrainRaise ==
    /\ pc = "drain"
    /\ kbhit(term, 0) = "TypeError"
    /\ Raise("inkey", "TypeError")
    /\ UNCHANGED <<objVars, ctorVars, kbdVars, obs>>

\* `while self.kbhit()` ends; `ks = resolve(text=ucs)`.
DrainDone ==
    /\ pc = "drain"
    /\ kbhit(term, 0) = "False"
    /\ ks' = resolve(ucs)
    /\ pc' = "block"
    /\ UNCHANGED <<objVars, ctorVars, kbdVars, now, timeout, esc_delay, stime, esctime, ucs, obsVars>>

\* `while not ks and self.kbhit(_timeleft(stime, timeout))`: a byte came.
BlockRead ==
    /\ pc = "block"
    /\ ks.ucs = <<>>
    /\ kbhit(term, _timeleft(stime, timeout)) = "True"
    /\ ReadNext(TRUE)

\* That loop ends, by a keystroke or by the timeout, and ks is not Escape.
BlockReturn ==
    /\ pc = "block"
    /\ ks.ucs # <<>> \/ kbhit(term, _timeleft(stime, timeout)) = "False"
    /\ ks.code # KEY_ESCAPE(term)
    /\ Return
    /\ UNCHANGED <<objVars, ctorVars, keyboard_decoder, kbq, narrived>>

\* That loop ends with ks the Escape key: `esctime = time.time()`.
EscEnter ==
    /\ pc = "block"
    /\ ks.ucs # <<>> \/ kbhit(term, _timeleft(stime, timeout)) = "False"
    /\ ks.code = KEY_ESCAPE(term)
    /\ esctime' = now
    /\ pc' = "esc"
    /\ UNCHANGED <<objVars, ctorVars, kbdVars, now, timeout, esc_delay, stime, ucs, ks, obsVars>>

\* `while ks.code is self.KEY_ESCAPE and self.kbhit(_timeleft(esctime,
\* esc_delay))`: a byte came within esc_delay.
EscRead ==
    /\ pc = "esc"
    /\ ks.code = KEY_ESCAPE(term)
    /\ kbhit(term, EscTimeleft) = "True"
    /\ ReadNext(TRUE)

\* That loop ends: ks is no longer Escape, or esc_delay has elapsed.
EscReturn ==
    /\ pc = "esc"
    /\ \/ ks.code # KEY_ESCAPE(term)
       \/ kbhit(term, EscTimeleft) = "False"
    /\ Return
    /\ UNCHANGED <<objVars, ctorVars, keyboard_decoder, kbq, narrived>>

\* kbhit(timeout) is called by the program itself.
KbhitCall(timeout_) ==
    /\ nterms > 0
    /\ pc = "idle"
    /\ pc' = "kbhit"
    /\ timeout' = timeout_
    /\ stime' = now
    /\ outcome' = [op |-> "kbhit", how |-> "running"]
    /\ ret' = NullKs
    /\ obs' = NoObs
    /\ UNCHANGED <<objVars, ctorVars, kbdVars, now, esc_delay, esctime, ucs, ks,
                   unreturned, misreturned>>

\* That kbhit ends: it returns True or False, or raises TypeError.
KbhitReturn ==
    /\ pc = "kbhit"
    /\ kbhit(term, _timeleft(stime, timeout)) # "blocked"
    /\ NoFrame
    /\ outcome' = [op |-> "kbhit", how |-> kbhit(term, _timeleft(stime, timeout))]
    /\ UNCHANGED <<objVars, ctorVars, kbdVars, ret, unreturned, misreturned, obs>>

----
\* The Terminal object in use.

\* The names the program and the context managers look up on the Terminal,
\* and the attribute the property `normal` keeps its value in.
Attrs == {"save", "restore", "move", "move_x", "move_y", "enter_fullscreen",
          "exit_fullscreen", "hide_cursor", "normal_cursor", "bold"}
\* The names the program accesses: those, and the property `normal`.
Names == Attrs \cup {"normal"}
\* The attributes that setattr may come to set on the object.
CacheKeys == Attrs \cup {"_normal"}

\* The threads of the program.
Threads == {1, 2}

\* No such attribute on the object; no value yet.
NoValue == [type |-> "unset", text |-> <<>>]
NoGot == [attr |-> "None", val |-> NoValue, cached |-> FALSE]
IdleThread == [pc |-> "idle", attr |-> "None", val |-> NoValue, ret |-> NoValue]

\* A Terminal just constructed: nothing cached, nothing written, no
\* with-block entered, the keyboard in the mode the shell left it in.
UseInit ==
    /\ cache = [a \in CacheKeys |-> NoValue]
    /\ ncalls = [a \in Names |-> 0]
    /\ first = [a \in Names |-> NoValue]
    /\ got = NoGot
    /\ output = <<>>
    /\ ctxs = <<>>
    /\ raised = "None"
    /\ tty_mode = "cooked"
    /\ mode_touched = FALSE
    /\ thr = [t \in Threads |-> IdleThread]

\* No text operation called yet.
TextInit ==
    /\ arg_text = <<>>
    /\ arg_width = 0
    /\ kwargs = "absent"
    /\ arg_maxsplit = None
    /\ arg_fillchar = " "
    /\ calls = <<>>
    /\ result = <<>>

----
\* The keyboard and the caller before the first call.
KbdInit ==
    /\ keyboard_buf = <<>>
    /\ keyboard_decoder = <<>>
    /\ kbq = <<>>
    /\ narrived = 0
    /\ pc = "idle"
    /\ now = 0
    /\ timeout = None
    /\ esc_delay = 0
    /\ stime = 0
    /\ esctime = None
    /\ ucs = <<>>
    /\ ks = NullKs
    /\ outcome = NoOutcome
    /\ ret = NullKs
    /\ unreturned = <<>>
    /\ misreturned = FALSE
    /\ obs = NoObs

\* A fresh process: no Terminal yet.
Init ==
    /\ _CUR_TERM = "None"
    /\ initialised_setupterm = FALSE
    /\ warnings = <<>>
    /\ environ \in Environs
    /\ nterms = 0
    /\ term = NoTerm
    /\ call = NoCall
    /\ KbdInit
    /\ UseInit
    /\ TextInit

\* The process constructs Terminals.
Next ==
    \E kind \in Kinds, stream \in Streams, force_styling \in ForceStylings :
        Terminal(kind, stream, force_styling)

Spec == Init /\ [][Next]_vars

\* The arguments of the Terminal whose keyboard is followed: the default
\* stream, a tty (the key tables are built), or a StringIO (no keyboard).
KbdTerminals ==
    {<<"None", "False">>, <<"StringIO", "False">>, <<"StringIO", "True">>}

\* One Terminal has been constructed in a fresh process whose stdout is a tty.
InitKbd ==
    /\ environ = [TERM |-> "xterm", stdout_isatty |-> TRUE]
    /\ \E a \in KbdTerminals :
         LET r == Terminal__init__("None", a[1], a[2], "None", FALSE, environ)
         IN  /\ term = r.self
             /\ _CUR_TERM = r.cur
             /\ initialised_setupterm = r.inited
             /\ warnings = r.warned
             /\ call = [kind |-> "None", stream |-> a[1], force_styling |-> a[2],
                        setupterm_ok |-> r.setupterm_ok, cur_before |-> "None"]
    /\ nterms = 1
    /\ KbdInit
    /\ UseInit
    /\ TextInit

NextKbd ==
    \/ \E byte \in Alphabet : Arrive(byte)
    \/ Tick
    \/ \E t \in Timeouts, e \in EscDelays : inkey(t, e)
    \/ DrainRead
    \/ DrainRaise
    \/ DrainDone
    \/ BlockRead
    \/ BlockReturn
    \/ EscEnter
    \/ EscRead
    \/ EscReturn
    \/ \E t \in Timeouts : KbhitCall(t)
    \/ KbhitReturn

SpecKbd == InitKbd /\ [][NextKbd]_vars

----
\* The claims about the keyboard, under SpecKbd.

\* The last call was inkey and it has ended, by a return or by an exception.
InkeyEnded == pc = "idle" /\ outcome.op = "inkey"
InkeyReturned == InkeyEnded /\ outcome.how = "returned"

\* The text inkey had buffered when it returned: the event, then the rest.
ReturnedText == ret.ucs \o PopAll(keyboard_buf)

\* The 3-byte arrow key of the model, cursor up.
ArrowUp == <<27, 91, 65>>

\* C1: between calls, the raw text of the returned events followed by the
\* pending buffer, as the next call re-reads it, is the sequence of the
\* codepoints decoded so far: every returned event was the front of what was
\* decoded and not yet returned (unreturned), and what is left of it is
\* exactly the pending buffer.
C1_NothingDecodedIsLost ==
    pc = "idle" => ~misreturned /\ PopAll(keyboard_buf) = unreturned

\* C2: a kbhit on a Terminal without keyboard descriptor returns False, for
\* every timeout; it does not raise.
C2_KbhitFalseWithoutKeyboard ==
    (pc = "idle" /\ outcome.op = "kbhit" /\ term.stream_kb = None)
        => outcome.how = "False"

\* C3: inkey on a Terminal without keyboard descriptor never comes to wait:
\* it is never in the loops that block, its first kbhit ends it at once, and
\* it ends by an exception or with the empty event.
C3_InkeyWithoutKeyboardFailsFast ==
    term.stream_kb = None =>
        /\ pc \notin {"block", "esc"}
        /\ ~Blocked
        /\ pc = "drain" => kbhit(term, 0) = "TypeError" /\ now = stime
        /\ InkeyEnded => \/ outcome.how = "TypeError"
                         \/ outcome.how = "returned" /\ ret = NullKs
C3_Witness ==
    /\ term.stream_kb = None
    /\ InkeyEnded
    /\ outcome.how = "TypeError"

\* C4: every return of inkey with timeout None carries a resolved key; a
\* return without a key happens only with a finite timeout that has elapsed
\* with nothing left to read, and is a normal return of the empty event (no
\* text, no code, is_sequence false); and a call whose finite timeout has
\* elapsed with no key and nothing to read ends by that return.
C4_Step ==
    /\ (pc # "idle" /\ pc' = "idle" /\ outcome'.op = "inkey"
            /\ outcome'.how = "returned") =>
         /\ timeout = None => ret'.ucs # <<>>
         /\ ret'.ucs = <<>> =>
              /\ ret' = [ucs |-> <<>>, code |-> "None", is_sequence |-> FALSE]
              /\ timeout # None
              /\ now - stime >= timeout
              /\ kbq = <<>>
    /\ (pc = "block" /\ ks.ucs = <<>> /\ kbq = <<>> /\ timeout # None
            /\ now - stime >= timeout /\ pc' # pc) =>
         /\ outcome' = [op |-> "inkey", how |-> "returned"]
         /\ ret' = NullKs
C4_TimeoutIsEmptyEvent == [][C4_Step]_vars
C4_Witness ==
    /\ InkeyReturned
    /\ term.stream_kb # None
    /\ ret = NullKs
    /\ obs.rd = <<195>>

\* C5, as claimed: a returned bare Escape means that no byte was read after
\* the Escape the event carries.
C5_EscapeOnlyIfNothingFollowed ==
    (InkeyReturned /\ ret.code = "KEY_ESCAPE") =>
        IF obs.call_buf # <<>> THEN obs.rd = <<>> ELSE obs.rd = <<27>>

\* C5, amended: a bare Escape is returned only out of the Escape loop, once
\* esc_delay has elapsed since Escape resolved and nothing is left to read,
\* and only if the text read by then does not begin with a longer known
\* sequence; if it does, the event returned is that sequence's.
C5_State ==
    InkeyReturned =>
        \A m \in keymap(term) :
            IsPrefix(m.seq, ReturnedText) =>
                ret.is_sequence /\ Len(ret.ucs) >= Len(m.seq)
C5_Step ==
    (pc # "idle" /\ pc' = "idle" /\ outcome'.how = "returned"
                 /\ ret'.code = "KEY_ESCAPE") =>
        /\ pc = "esc"
        /\ esctime # None
        /\ now - esctime >= esc_delay
        /\ kbq = <<>>
C5_EscapeDisambiguation == []C5_State /\ [][C5_Step]_vars
C5_Witness ==
    /\ InkeyReturned
    /\ ret.code = "KEY_ESCAPE"
    /\ obs.rd = <<27, 65>>
    /\ keyboard_buf = <<65>>

\* On a Terminal with a keyboard and key tables, the bytes of the arrow key
\* were all readable when the call began, the pending buffer was empty, and
\* the call read no other byte.
C6_Case ==
    /\ InkeyEnded
    /\ term.stream_kb # None
    /\ term.does_styling
    /\ obs.call_buf = <<>>
    /\ obs.call_kbq = ArrowUp
    /\ IsPrefix(obs.rd, ArrowUp)
C6_Result ==
    /\ outcome.how = "returned"
    /\ ret = [ucs |-> ArrowUp, code |-> "KEY_UP", is_sequence |-> TRUE]
    /\ obs.rd = ArrowUp
    /\ keyboard_buf = <<>>

\* C6, as claimed: with the arrow key's 3 bytes readable and the pending
\* buffer empty, the call returns the one event of that key, is_sequence
\* true, having read the 3 bytes, and leaves the pending buffer empty.
C6_ArrowInOneRead == C6_Case => C6_Result

\* C6, amended: the same, when moreover the decoder holds no bytes of an
\* unfinished character.
C6_ArrowInOneReadFreshDecoder ==
    (C6_Case /\ obs.call_dec = <<>>) => C6_Result
C6_Witness == C6_Case /\ obs.call_dec = <<>> /\ C6_Result

\* C7: a call that, with nothing pending, reads only the first byte of a
\* two-byte character ends by returning the empty event, the byte kept in
\* the decoder; the next call, reading the second byte, returns the event
\* whose text is the character, and nothing of it stays behind.
C7_SplitCharacterCarried ==
    /\ (InkeyEnded /\ obs.call_buf = <<>> /\ obs.call_dec = <<>>
                   /\ obs.rd = <<195>>) =>
         /\ outcome.how = "returned"
         /\ ret = NullKs
         /\ keyboard_buf = <<>>
         /\ keyboard_decoder = <<195>>
    /\ (InkeyEnded /\ obs.call_buf = <<>> /\ obs.call_dec = <<195>>
                   /\ obs.rd = <<169>>) =>
         /\ outcome.how = "returned"
         /\ ret = [ucs |-> <<233>>, code |-> "None", is_sequence |-> FALSE]
         /\ keyboard_buf = <<>>
         /\ keyboard_decoder = <<>>
C7_Witness ==
    /\ InkeyReturned
    /\ obs.call_dec = <<195>>
    /\ obs.rd = <<169>>
    /\ ret.ucs = <<233>>

\* C8: the event inkey returns is resolved from all the text it had
\* buffered: it carries the longest known sequence that begins that text,
\* and the first character of the text when no known sequence begins it.
C8_LongestKnownPrefix ==
    InkeyReturned =>
        LET known == {m \in keymap(term) : IsPrefix(m.seq, ReturnedText)}
        IN  /\ \A m \in known : Len(ret.ucs) >= Len(m.seq)
            /\ known # {} =>
                 \E m \in known : ret = Keystroke(m.seq, m.code)
            /\ (known = {} /\ ReturnedText # <<>>) =>
                 ret = Keystroke(<<ReturnedText[1]>>, "None")
C8_Witness ==
    /\ InkeyReturned
    /\ ret.code = "KEY_UP"
    /\ Cardinality({m \in keymap(term) : IsPrefix(m.seq, ReturnedText)}) = 2

----
\* The claims about construction, under Spec.

\* C9: _CUR_TERM is set once, by the first Terminal that does styling (its
\* setupterm succeeded), to that Terminal's kind, and never changes again; a
\* later styling Terminal of another kind adds the warning and one of the
\* same kind adds none; a Terminal that does no styling leaves it alone.
C9_Step ==
    nterms' = nterms + 1 =>
        /\ _CUR_TERM # "None" => _CUR_TERM' = _CUR_TERM
        /\ ~term'.does_styling => _CUR_TERM' = _CUR_TERM
        /\ (_CUR_TERM = "None" /\ term'.does_styling) =>
             /\ _CUR_TERM' = term'.kind
             /\ call'.setupterm_ok = "ok"
             /\ warnings' = warnings
        /\ (_CUR_TERM # "None" /\ term'.does_styling) =>
             IF term'.kind = _CUR_TERM
             THEN warnings' = warnings
             ELSE warnings' = Append(warnings,
                      [what |-> "kind", kind |-> term'.kind, cur |-> _CUR_TERM])
C9_CurTermSetOnce == [][C9_Step]_vars
C9_Witness ==
    /\ _CUR_TERM = "xterm"
    /\ term.does_styling
    /\ term.kind = "vt100"
    /\ Len(warnings) = 1

\* C10: the Terminal does styling iff its stream is a tty or force_styling
\* is true, force_styling is not None, and setupterm succeeded; so a stream
\* that is no tty with force_styling False gives empty capability strings,
\* force_styling True gives the sequences even then, and force_styling None
\* gives empty strings even on a tty.
C10_DoesStyling ==
    nterms > 0 =>
        /\ term.does_styling <=>
             /\ term.is_a_tty \/ call.force_styling = "True"
             /\ call.force_styling # "None"
             /\ call.setupterm_ok = "ok"
        /\ (~term.is_a_tty /\ call.force_styling = "False") =>
             __getattr__(term, "save").text = <<>>
        /\ (call.force_styling = "True" /\ call.setupterm_ok = "ok") =>
             __getattr__(term, "save").text # <<>>
        /\ call.force_styling = "None" =>
             __getattr__(term, "save").text = <<>>
C10_Witness ==
    /\ nterms > 0
    /\ term.is_a_tty
    /\ call.force_styling = "None"
    /\ ~term.does_styling

----
\* Attribute access on the Terminal.

\* `attr in dir(self)`: the object has the attribute. The class defines none
\* of Attrs, and `_normal` is set only on the object.
InDir(c, attr) == c[attr] # NoValue

\* A store that leaves the attribute visible before its value is whole.
setattrPartial(c, attr, val) ==
    [c EXCEPT ![attr] = [type |-> val.type, text |-> <<>>]]

\* setattr(self, attr, val)
setattr(c, attr, val) == [c EXCEPT ![attr] = val]

\* A __getattr__ that returns the value and keeps nothing.
getattr_effectNoCache(self, c, attr) ==
    [cache |-> c, resolved |-> self.does_styling]

\* A __getattr__ that keeps the value it returns also when it is the null one.
getattr_effectCachesNull(self, c, attr) ==
    [cache |-> IF ~InDir(c, attr) THEN setattr(c, attr, __getattr__(self, attr))
               ELSE c,
     resolved |-> self.does_styling]

\* Terminal.__getattr__(attr), what it does besides returning the value:
\* the object's attributes it leaves, and whether it called the resolver.
getattr_effect(self, c, attr) ==
    IF ~self.does_styling
    THEN [cache |-> c, resolved |-> FALSE]
    ELSE [cache |-> IF ~InDir(c, attr)
                    THEN setattr(c, attr, resolve_attribute(self, attr))
                    ELSE c,
          resolved |-> TRUE]

\* formatters.resolve_capability(term, attr): the capability's sequence, as
\* one token naming it; the empty string when the Terminal does no styling.
resolve_capability(self, attr) ==
    IF self.does_styling THEN <<[cap |-> attr]>> ELSE <<>>

\* The property Terminal.normal: the value kept in `_normal`, looked up and
\* stored there by the first access.
normal(self, c) ==
    IF InDir(c, "_normal")
    THEN [val |-> c["_normal"], cache |-> c, resolved |-> FALSE]
    ELSE LET v == [type |-> "unicode", text |-> resolve_capability(self, "normal")]
         IN  [val |-> v, cache |-> setattr(c, "_normal", v), resolved |-> TRUE]

\* The expression `self.<attr>`: the property for `normal`; else the
\* attribute set on the object, and __getattr__ when there is none.
Lookup(self, c, attr) ==
    IF attr = "normal" THEN normal(self, c)
    ELSE IF InDir(c, attr)
    THEN [val |-> c[attr], cache |-> c, resolved |-> FALSE]
    ELSE [val |-> __getattr__(self, attr),
          cache |-> getattr_effect(self, c, attr).cache,
          resolved |-> getattr_effect(self, c, attr).resolved]

\* The attribute of the object an accessed name is kept in.
CacheKey(a) == IF a = "normal" THEN "_normal" ELSE a

\* The observations after the lookup r of attr.
Observe(attr, r) ==
    /\ got' = [attr |-> attr, val |-> r.val,
               cached |-> InDir(cache, CacheKey(attr))]
    /\ ncalls' = [ncalls EXCEPT ![attr] = IF r.resolved THEN @ + 1 ELSE @]
    /\ first' = IF first[attr] = NoValue THEN [first EXCEPT ![attr] = r.val]
                ELSE first

\* The program evaluates `term.<attr>`.
Access(attr) ==
    /\ raised = "None"
    /\ LET r == Lookup(term, cache, attr)
       IN  /\ cache' = r.cache
           /\ Observe(attr, r)
    /\ UNCHANGED <<ctorVars, kbdVars, frameVars, obsVars, output, ctxs, raised,
                   tty_mode, mode_touched, thr, textVars>>


----
\* The context managers.

\* The arguments <<x, y>> a caller passes to location(): neither, only x
\* (and zero), only y, both (one of them zero).
LocationArgs == {<<None, None>>, <<0, None>>, <<None, 1>>, <<1, 0>>}

\* `x is not None` with a falsy test in its place.
IsGivenTruthy(v) == v # None /\ v # 0

\* `x is not None`
IsGiven(v) == v # None

\* location(x, y), lines 301-306: the attribute called to move, and with what.
LocationMove(x, y) ==
    IF IsGiven(x) /\ IsGiven(y) THEN [attr |-> "move", args |-> <<y, x>>]
    ELSE IF IsGiven(x) THEN [attr |-> "move_x", args |-> <<x>>]
    ELSE IF IsGiven(y) THEN [attr |-> "move_y", args |-> <<y>>]
    ELSE [attr |-> "None", args |-> <<>>]

\* A formatting value called with integers: the capability with these
\* parameters, as one token; the null value gives the empty string.
call_(val, args) ==
    IF val.text = <<>> THEN <<>>
    ELSE <<[cap |-> val.text[1].cap, args |-> args]>>

\* The sequence each block writes when it is left; cbreak and raw write none.
ExitAttr(kind) ==
    CASE kind = "location" -> "restore"
      [] kind = "fullscreen" -> "exit_fullscreen"
      [] kind = "hidden_cursor" -> "normal_cursor"
      [] OTHER -> "None"
EnterAttr(kind) ==
    CASE kind = "location" -> "save"
      [] kind = "fullscreen" -> "enter_fullscreen"
      [] kind = "hidden_cursor" -> "hide_cursor"
      [] OTHER -> "None"

\* A block entered: its kind, location's arguments, the mode cbreak/raw saved.
Frame(kind, x, y, save_mode) ==
    [kind |-> kind, x |-> x, y |-> y, save_mode |-> save_mode]

\* ncalls and first after the lookup r of attr.
Counted(n, attr, r) == [n EXCEPT ![attr] = IF r.resolved THEN @ + 1 ELSE @]
Firsts(f, attr, r) == IF f[attr] = NoValue THEN [f EXCEPT ![attr] = r.val] ELSE f

\* `with term.location(x, y):` is entered: save is written, then the move.
EnterLocation(x, y) ==
    /\ raised = "None"
    /\ Len(ctxs) < MaxDepth
    /\ Len(output) < MaxOutput
    /\ LET r1 == Lookup(term, cache, "save")
           m  == LocationMove(x, y)
           r2 == IF m.attr = "None"
                 THEN [val |-> NoValue, cache |-> r1.cache, resolved |-> FALSE]
                 ELSE Lookup(term, r1.cache, m.attr)
           n1 == Counted(ncalls, "save", r1)
           f1 == Firsts(first, "save", r1)
       IN  /\ output' = output \o r1.val.text \o call_(r2.val, m.args)
           /\ cache' = r2.cache
           /\ ncalls' = IF m.attr = "None" THEN n1 ELSE Counted(n1, m.attr, r2)
           /\ first' = IF m.attr = "None" THEN f1 ELSE Firsts(f1, m.attr, r2)
    /\ ctxs' = Append(ctxs, Frame("location", x, y, "None"))
    /\ outcome' = [op |-> "location", how |-> "entered"]
    /\ UNCHANGED <<ctorVars, kbdVars, frameVars, ret, unreturned, misreturned, obs,
                   got, raised, tty_mode, mode_touched, thr, textVars>>

\* `with term.fullscreen():` or `with term.hidden_cursor():` is entered.
EnterScreen(kind) ==
    /\ raised = "None"
    /\ Len(ctxs) < MaxDepth
    /\ Len(output) < MaxOutput
    /\ LET r == Lookup(term, cache, EnterAttr(kind))
       IN  /\ output' = output \o r.val.text
           /\ cache' = r.cache
           /\ ncalls' = Counted(ncalls, EnterAttr(kind), r)
           /\ first' = Firsts(first, EnterAttr(kind), r)
    /\ ctxs' = Append(ctxs, Frame(kind, None, None, "None"))
    /\ outcome' = [op |-> kind, how |-> "entered"]
    /\ UNCHANGED <<ctorVars, kbdVars, frameVars, ret, unreturned, misreturned, obs,
                   got, raised, tty_mode, mode_touched, thr, textVars>>

\* A restore that leaves the mode as the block has it.
tcsetattrNoRestore(cur, save_mode) == cur

\* termios.tcsetattr(self.stream_kb, termios.TCSAFLUSH, save_mode): the mode
\* of the keyboard after it.
tcsetattr(cur, save_mode) == save_mode

\* `with term.cbreak():` or `with term.raw():` is entered: the assertion,
\* then with a keyboard the mode is saved and set.
EnterMode(kind) ==
    /\ raised = "None"
    /\ Len(ctxs) < MaxDepth
    /\ IF ~term.is_a_tty
       THEN /\ raised' = IF ctxs = <<>> THEN "None" ELSE "AssertionError"
            /\ outcome' = [op |-> kind, how |-> "AssertionError"]
            /\ UNCHANGED <<ctxs, tty_mode, mode_touched>>
       ELSE IF term.stream_kb # None
       THEN /\ ctxs' = Append(ctxs, Frame(kind, None, None, tty_mode))
            /\ tty_mode' = kind
            /\ mode_touched' = TRUE
            /\ outcome' = [op |-> kind, how |-> "entered"]
            /\ UNCHANGED raised
       ELSE /\ ctxs' = Append(ctxs, Frame(kind, None, None, "None"))
            /\ outcome' = [op |-> kind, how |-> "entered"]
            /\ UNCHANGED <<raised, tty_mode, mode_touched>>
    /\ UNCHANGED <<ctorVars, kbdVars, frameVars, ret, unreturned, misreturned, obs,
                   cache, ncalls, first, got, output, thr, textVars>>

\* The body of the innermost block (or the program outside any) writes.
BodyWrite ==
    /\ raised = "None"
    /\ Len(output) < MaxOutput
    /\ output' = Append(output, [lit |-> "hi"])
    /\ outcome' = [op |-> "write", how |-> "written"]
    /\ UNCHANGED <<ctorVars, kbdVars, frameVars, ret, unreturned, misreturned, obs, cache, ncalls, first, got,
                   ctxs, raised, tty_mode, mode_touched, thr, textVars>>

\* The body of the innermost block raises.
BodyRaise ==
    /\ raised = "None"
    /\ ctxs # <<>>
    /\ raised' = "Error"
    /\ outcome' = [op |-> "body", how |-> "Error"]
    /\ UNCHANGED <<ctorVars, kbdVars, frameVars, ret, unreturned, misreturned, obs, cache, ncalls, first, got,
                   output, ctxs, tty_mode, mode_touched, thr, textVars>>

\* An exit sequence written only when the body ended normally.
OnExitNoFinally(raising, txt) == IF raising THEN <<>> ELSE txt

\* `try: yield / finally: self.stream.write(...)`: what is written when the
\* block is left, by the body's end or by an exception thrown at the yield.
OnExit(raising, txt) == txt

\* The innermost block is left: its finally clause runs.
ExitBlock(how) ==
    /\ ctxs # <<>>
    /\ LET top == ctxs[Len(ctxs)]
           writes == ExitAttr(top.kind) # "None"
           r == IF writes THEN Lookup(term, cache, ExitAttr(top.kind))
                ELSE [val |-> NoValue, cache |-> cache, resolved |-> FALSE]
       IN  /\ output' = output \o OnExit(raised # "None", r.val.text)
           /\ cache' = r.cache
           /\ ncalls' = IF writes THEN Counted(ncalls, ExitAttr(top.kind), r) ELSE ncalls
           /\ first' = IF writes THEN Firsts(first, ExitAttr(top.kind), r) ELSE first
           /\ IF top.kind \in {"cbreak", "raw"} /\ term.stream_kb # None
              THEN /\ tty_mode' = tcsetattr(tty_mode, top.save_mode)
                   /\ mode_touched' = TRUE
              ELSE UNCHANGED <<tty_mode, mode_touched>>
           /\ outcome' = [op |-> top.kind, how |-> how]
    /\ ctxs' = SubSeq(ctxs, 1, Len(ctxs) - 1)
    /\ raised' = IF Len(ctxs) = 1 THEN "None" ELSE raised
    /\ UNCHANGED <<ctorVars, kbdVars, frameVars, ret, unreturned, misreturned, obs,
                   got, thr, textVars>>

\* The body of the innermost block ends normally.
Leave ==
    /\ raised = "None"
    /\ ExitBlock("left")

\* The exception leaves the innermost block, on its way out of all of them.
Unwind ==
    /\ raised # "None"
    /\ ExitBlock("unwound")

\* The names the program itself accesses.
AccessNames == {"bold", "save", "restore", "move", "normal"}

\* The Terminals in use: the default one (a tty with a keyboard), one that
\* is forbidden to style, a StringIO (no tty, no styling), and a pty (a tty
\* that is not the keyboard's).
UseTerminals ==
    {<<"None", "False">>, <<"None", "None">>, <<"StringIO", "False">>,
     <<"pty", "False">>}

\* One Terminal, of those in ts, has been constructed in a fresh process
\* whose stdout is a tty.
Constructed(ts) ==
    /\ environ = [TERM |-> "xterm", stdout_isatty |-> TRUE]
    /\ \E a \in ts :
         LET r == Terminal__init__("None", a[1], a[2], "None", FALSE, environ)
         IN  /\ term = r.self
             /\ _CUR_TERM = r.cur
             /\ initialised_setupterm = r.inited
             /\ warnings = r.warned
             /\ call = [kind |-> "None", stream |-> a[1], force_styling |-> a[2],
                        setupterm_ok |-> r.setupterm_ok, cur_before |-> "None"]
    /\ nterms = 1
    /\ KbdInit
    /\ UseInit

InitUse == Constructed(UseTerminals) /\ TextInit

\* The program accesses attributes of the Terminal, one access after another.
NextAttr == \E attr \in AccessNames : Access(attr)

SpecAttr == InitUse /\ [][NextAttr]_vars

----
\* The claims about attribute access, under SpecAttr.

\* The null value __getattr__ returns without styling.
NullCallableString == [type |-> "NullCallableString", text |-> <<>>]

\* C11, as claimed: on a Terminal that does no styling, every access of a
\* style attribute returns the null value, no resolver or capability lookup
\* is invoked for it, and the attributes cached on the object stay as they
\* were.
C11_NoStylingNoResolution ==
    ~term.does_styling =>
        /\ \A k \in CacheKeys : cache[k] = NoValue
        /\ \A a \in Names : ncalls[a] = 0
        /\ got.attr # "None" => got.val.text = <<>>

\* C11, amended: the same of every name resolved by __getattr__, which is
\* every style name but the property `normal`.
C11_NoStylingNoResolutionGetattr ==
    ~term.does_styling =>
        /\ \A a \in Attrs : cache[a] = NoValue /\ ncalls[a] = 0
        /\ got.attr \in Attrs => got.val = NullCallableString /\ ~got.cached
C11_Witness ==
    /\ ~term.does_styling
    /\ got.attr = "bold"
    /\ got.val = NullCallableString
    /\ cache["_normal"] # NoValue

\* C12: with styling, the first access of a name sets the value on the
\* object (under that name; the property `normal` under `_normal`), the
\* resolver is invoked at most once for the name whatever the accesses, and
\* every access gives the value the first one gave.
C12_ResolvedOncePerName ==
    term.does_styling =>
        \A a \in Names :
            /\ ncalls[a] <= 1
            /\ first[a] # NoValue =>
                  /\ ncalls[a] = 1
                  /\ cache[CacheKey(a)] = first[a]
            /\ got.attr = a => got.val = first[a]
C12_Witness ==
    /\ term.does_styling
    /\ got = [attr |-> "save", val |-> first["save"], cached |-> TRUE]
    /\ ncalls["save"] = 1
    /\ ncalls["bold"] = 1

\* The program enters and leaves with-blocks of the Terminal and writes.
NextUse ==
    \/ \E a \in LocationArgs : EnterLocation(a[1], a[2])
    \/ \E kind \in {"fullscreen", "hidden_cursor"} : EnterScreen(kind)
    \/ \E kind \in {"cbreak", "raw"} : EnterMode(kind)
    \/ BodyWrite
    \/ BodyRaise
    \/ Leave
    \/ Unwind

SpecUse == InitUse /\ [][NextUse]_vars

----
\* The claims about the context managers, under SpecUse.

\* The blocks that write a sequence when entered and one when left.
ScreenKinds == {"location", "fullscreen", "hidden_cursor"}

\* The blocks whose enter sequence is in `out` with no exit sequence after
\* it, outermost first, given those of `open` before `out`; an exit sequence
\* that is not the innermost open block's makes the whole <<"unmatched">>.
RECURSIVE Unclosed(_, _)
Unclosed(out, open) ==
    IF out = <<>> THEN open
    ELSE LET t == Head(out)
         IN  IF \E k \in ScreenKinds : t = [cap |-> EnterAttr(k)]
             THEN Unclosed(Tail(out),
                           Append(open, CHOOSE k \in ScreenKinds :
                                            t = [cap |-> EnterAttr(k)]))
             ELSE IF \E k \in ScreenKinds : t = [cap |-> ExitAttr(k)]
             THEN IF open # <<>> /\ t = [cap |-> ExitAttr(open[Len(open)])]
                  THEN Unclosed(Tail(out), SubSeq(open, 1, Len(open) - 1))
                  ELSE <<"unmatched">>
             ELSE Unclosed(Tail(out), open)

\* The kinds of the blocks of ScreenKinds the program is in, outermost first.
WritesOnExit(f) == f.kind \in ScreenKinds
InBlocks ==
    LET fs == SelectSeq(ctxs, WritesOnExit)
    IN  [i \in 1..Len(fs) |-> fs[i].kind]

\* C14: on a styling Terminal each block of location, fullscreen and
\* hidden_cursor that was entered and left, by the end of its body or by an
\* exception, has its exit sequence on the stream exactly once, and nested
\* blocks have theirs in the reverse order of their enter sequences: the
\* enter sequences on the stream that are not yet closed by their exit
\* sequence are exactly those of the blocks the program is still in.
C14_ExitSequencesBalanced ==
    term.does_styling => Unclosed(output, <<>>) = InBlocks
C14_Witness ==
    /\ term.does_styling
    /\ outcome = [op |-> "location", how |-> "unwound"]
    /\ ctxs = <<>>
    /\ output = <<[cap |-> "save"], [cap |-> "hide_cursor"],
                  [cap |-> "normal_cursor"], [cap |-> "restore"]>>

\* What location(x, y) is to write after save.
C15_Move(x, y) ==
    CASE x # None /\ y # None -> <<[cap |-> "move", args |-> <<y, x>>]>>
      [] x # None /\ y = None -> <<[cap |-> "move_x", args |-> <<x>>]>>
      [] x = None /\ y # None -> <<[cap |-> "move_y", args |-> <<y>>]>>
      [] OTHER -> <<>>

\* C15: on a styling Terminal, entering location(x, y) writes save and then
\* move(y, x) when both are not None, move_x(x) when only x is, move_y(y)
\* when only y is and nothing more when neither is, 0 being a coordinate like
\* any other; leaving the block, after whatever the body wrote, writes
\* restore.
C15_LocationSequence ==
    [][term.does_styling =>
         /\ outcome' = [op |-> "location", how |-> "entered"] =>
               LET f == ctxs'[Len(ctxs')]
               IN  output' = output \o <<[cap |-> "save"]>> \o C15_Move(f.x, f.y)
         /\ (outcome'.op = "location" /\ outcome'.how \in {"left", "unwound"}) =>
               output' = Append(output, [cap |-> "restore"])]_vars
C15_Witness ==
    /\ term.does_styling
    /\ outcome = [op |-> "location", how |-> "left"]
    /\ output = <<[cap |-> "save"], [cap |-> "move_x", args |-> <<0>>],
                  [lit |-> "hi"], [cap |-> "restore"]>>

\* C16: on a Terminal that does no styling the blocks write no sequence:
\* the stream holds what the bodies wrote and nothing else, whatever the
\* arguments of location().
C16_NoStylingOnlyBody ==
    ~term.does_styling =>
        \A i \in 1..Len(output) : output[i] = [lit |-> "hi"]
C16_Witness ==
    /\ ~term.does_styling
    /\ outcome = [op |-> "location", how |-> "left"]
    /\ first["move"] = NullCallableString
    /\ first["restore"] = NullCallableString
    /\ output = <<[lit |-> "hi"]>>

\* The mode the keyboard is to be in: that of the innermost cbreak or raw
\* block the program is in, the original one outside them all.
RECURSIVE C17_Mode(_)
C17_Mode(fs) ==
    IF fs = <<>> THEN "cooked"
    ELSE IF fs[Len(fs)].kind \in {"cbreak", "raw"} THEN fs[Len(fs)].kind
    ELSE C17_Mode(SubSeq(fs, 1, Len(fs) - 1))

\* C17: leaving a cbreak or raw block, by the end of the body or by an
\* exception, puts the keyboard back in the mode it had when the block was
\* entered, so that the mode is always that of the innermost such block still
\* open and the original one outside them; a Terminal without a keyboard
\* never reads or sets the mode.
C17_ModeRestored ==
    /\ term.stream_kb # None => tty_mode = C17_Mode(ctxs)
    /\ term.stream_kb = None => ~mode_touched /\ tty_mode = "cooked"
C17_Witness ==
    /\ term.stream_kb # None
    /\ outcome = [op |-> "raw", how |-> "unwound"]
    /\ raised = "Error"
    /\ ctxs = <<Frame("cbreak", None, None, "cooked")>>
    /\ tty_mode = "cbreak"


----
\* Two threads access attributes of one Terminal. A thread is switched only
\* between bytecodes, so each step below is one the interpreter runs whole:
\* the attribute lookup, the call of the resolver, the test `attr in
\* dir(self)`, the store of setattr, the return.

\* The names the threads access.
RaceNames == {"bold", "normal"}

raceOther == <<ctorVars, kbdVars, frameVars, obsVars, first, got, output, ctxs,
               raised, tty_mode, mode_touched, textVars>>

\* Thread t evaluates `term.<attr>`: an attribute the object has is returned;
\* `normal` runs the property up to its test; any other name enters
\* __getattr__.
ThreadLookup(t, attr) ==
    /\ thr[t].pc = "idle"
    /\ thr' = [thr EXCEPT ![t] =
                 IF attr = "normal"
                 THEN [pc |-> IF InDir(cache, "_normal") THEN "normal_return"
                              ELSE "normal_set",
                       attr |-> attr, val |-> NoValue, ret |-> NoValue]
                 ELSE IF InDir(cache, attr)
                 THEN [pc |-> "done", attr |-> attr, val |-> NoValue,
                       ret |-> cache[attr]]
                 ELSE [pc |-> "getattr", attr |-> attr, val |-> NoValue,
                       ret |-> NoValue]]
    /\ UNCHANGED <<cache, ncalls, raceOther>>

\* __getattr__, lines 197-199: the null value without styling, else the
\* resolver is called and its value held in the local `val`.
ThreadResolve(t) ==
    /\ thr[t].pc = "getattr"
    /\ IF ~term.does_styling
       THEN /\ thr' = [thr EXCEPT ![t].pc = "done",
                                  ![t].ret = __getattr__(term, thr[t].attr)]
            /\ UNCHANGED ncalls
       ELSE /\ thr' = [thr EXCEPT ![t].pc = "check",
                                  ![t].val = resolve_attribute(term, thr[t].attr)]
            /\ ncalls' = [ncalls EXCEPT ![thr[t].attr] = @ + 1]
    /\ UNCHANGED <<cache, raceOther>>

\* Line 201: `if not attr in dir(self)`.
ThreadCheck(t) ==
    /\ thr[t].pc = "check"
    /\ thr' = [thr EXCEPT ![t].pc = IF ~InDir(cache, thr[t].attr) THEN "set"
                                    ELSE "return"]
    /\ UNCHANGED <<cache, ncalls, raceOther>>

\* Line 202: setattr(self, attr, val).
ThreadSet(t) ==
    /\ thr[t].pc = "set"
    /\ cache' = setattr(cache, thr[t].attr, thr[t].val)
    /\ thr' = [thr EXCEPT ![t].pc = "return"]
    /\ UNCHANGED <<ncalls, raceOther>>

\* Line 203: return val.
ThreadReturn(t) ==
    /\ thr[t].pc = "return"
    /\ thr' = [thr EXCEPT ![t].pc = "done", ![t].ret = thr[t].val]
    /\ UNCHANGED <<cache, ncalls, raceOther>>

\* The property normal, line 368: the capability is resolved and stored.
ThreadNormalSet(t) ==
    /\ thr[t].pc = "normal_set"
    /\ cache' = setattr(cache, "_normal",
                        [type |-> "unicode",
                         text |-> resolve_capability(term, "normal")])
    /\ ncalls' = [ncalls EXCEPT !["normal"] = @ + 1]
    /\ thr' = [thr EXCEPT ![t].pc = "normal_return"]
    /\ UNCHANGED raceOther

\* The property normal, lines 367 and 369: return self._normal.
ThreadNormalReturn(t) ==
    /\ thr[t].pc = "normal_return"
    /\ thr' = [thr EXCEPT ![t].pc = "done", ![t].ret = cache["_normal"]]
    /\ UNCHANGED <<cache, ncalls, raceOther>>

\* The thread has its value and goes on to its next access.
ThreadNext(t) ==
    /\ thr[t].pc = "done"
    /\ thr' = [thr EXCEPT ![t] = IdleThread]
    /\ UNCHANGED <<cache, ncalls, raceOther>>

NextRace ==
    \E t \in Threads :
        \/ \E attr \in RaceNames : ThreadLookup(t, attr)
        \/ ThreadResolve(t)
        \/ ThreadCheck(t)
        \/ ThreadSet(t)
        \/ ThreadReturn(t)
        \/ ThreadNormalSet(t)
        \/ ThreadNormalReturn(t)
        \/ ThreadNext(t)

SpecRace == InitUse /\ [][NextRace]_vars

\* The whole value of a name on a styling Terminal.
C13_Value(a) ==
    IF a = "normal"
    THEN [type |-> "unicode", text |-> <<[cap |-> "normal"]>>]
    ELSE [type |-> "FormattingString", text |-> <<[cap |-> a]>>]

\* C13: when threads race on the first access of a name of a styling
\* Terminal, each may resolve it, but every store sets the same whole value:
\* an attribute of the object is either absent or holds the whole value of
\* its name, and every thread returns that value.
C13_RaceIsIdempotent ==
    term.does_styling =>
        /\ \A a \in Names :
              cache[CacheKey(a)] \in {NoValue, C13_Value(a)}
        /\ \A t \in Threads :
              thr[t].pc = "done" => thr[t].ret = C13_Value(thr[t].attr)
C13_Witness ==
    /\ term.does_styling
    /\ ncalls["bold"] = 2
    /\ \A t \in Threads :
          /\ thr[t].pc = "done"
          /\ thr[t].attr = "bold"
          /\ thr[t].ret = cache["bold"]
    /\ cache["bold"] = C13_Value("bold")

----
\* Text operations. A text is a sequence of characters, each a string.

\* The texts of at most n characters over chars.
Texts(chars, n) == UNION {[1..k -> chars] : k \in 0..n}

\* The strings of ss one after another.
RECURSIVE Concat(_)
Concat(ss) == IF ss = <<>> THEN <<>> ELSE Head(ss) \o Concat(Tail(ss))

Whitespace == {" ", "\n"}

\* `not s.strip()`: nothing but whitespace in s.
IsBlank(s) == \A i \in 1..Len(s) : s[i] \in Whitespace

\* s.splitlines(): the lines of s without their line ends; a line end at the
\* end of s starts no further line.
RECURSIVE splitlines(_)
splitlines(s) ==
    IF s = <<>> THEN <<>>
    ELSE IF \A i \in 1..Len(s) : s[i] # "\n" THEN <<s>>
    ELSE LET i == CHOOSE j \in 1..Len(s) :
                      s[j] = "\n" /\ \A k \in 1..(j - 1) : s[k] # "\n"
         IN  <<SubSeq(s, 1, i - 1)>> \o splitlines(SubSeq(s, i + 1, Len(s)))

\* The text with every whitespace character made a space, cut into maximal
\* runs of spaces and of other characters.
RECURSIVE Chunks(_)
Chunks(s) ==
    IF s = <<>> THEN <<>>
    ELSE LET sp(c) == c \in Whitespace
             n == CHOOSE j \in 1..Len(s) :
                      /\ \A k \in 1..j : sp(s[k]) = sp(s[1])
                      /\ j < Len(s) => sp(s[j + 1]) # sp(s[1])
         IN  <<[k \in 1..n |-> IF sp(s[k]) THEN " " ELSE s[k]]>>
                 \o Chunks(SubSeq(s, n + 1, Len(s)))

\* The chunks that fit on the current line are moved to it.
RECURSIVE Fill(_, _, _, _)
Fill(chunks, cur_line, cur_len, w) ==
    IF chunks # <<>> /\ cur_len + Len(Head(chunks)) <= w
    THEN Fill(Tail(chunks), Append(cur_line, Head(chunks)),
              cur_len + Len(Head(chunks)), w)
    ELSE [cur_line |-> cur_line, cur_len |-> cur_len, chunks |-> chunks]

\* A chunk wider than the width: cut at the room left on the line when long
\* words are broken, else put whole on a line that is still empty.
_handle_long_word(f, w, brk) ==
    IF f.chunks = <<>> \/ Len(Head(f.chunks)) <= w THEN f
    ELSE LET c == Head(f.chunks)
             space_left == w - f.cur_len
         IN  IF brk
             THEN [cur_line |-> Append(f.cur_line, SubSeq(c, 1, space_left)),
                   cur_len |-> f.cur_len + space_left,
                   chunks |-> <<SubSeq(c, space_left + 1, Len(c))>>
                                  \o Tail(f.chunks)]
             ELSE IF f.cur_line = <<>>
             THEN [cur_line |-> <<c>>, cur_len |-> Len(c),
                   chunks |-> Tail(f.chunks)]
             ELSE f

\* The greedy filling of lines: whitespace that would begin a line other
\* than the first or end a line is dropped, and a line left empty is none.
RECURSIVE _wrap_chunks(_, _, _, _)
_wrap_chunks(chunks, w, brk, lines) ==
    IF chunks = <<>> THEN lines
    ELSE LET c0 == IF IsBlank(Head(chunks)) /\ lines # <<>> THEN Tail(chunks)
                   ELSE chunks
             g  == _handle_long_word(Fill(c0, <<>>, 0, w), w, brk)
             n  == Len(g.cur_line)
             cl == IF n > 0 /\ IsBlank(g.cur_line[n])
                   THEN SubSeq(g.cur_line, 1, n - 1) ELSE g.cur_line
         IN  _wrap_chunks(g.chunks, w, brk,
                          IF cl # <<>> THEN Append(lines, Concat(cl)) ELSE lines)

\* sequences.SequenceTextWrapper(width=w, term=self, **kwargs).wrap(s): the
\* lines of s wrapped as one paragraph, long words broken unless
\* break_long_words is given false.
SequenceTextWrapper_wrap(s, w, kw) ==
    _wrap_chunks(Chunks(s), w, kw # "False", <<>>)

\* An assertion that lets every keyword argument pass.
break_long_words_unsetAlways(kw) == TRUE

\* Line 463: `_blw not in kwargs or not kwargs[_blw]`.
break_long_words_unset(kw) == kw = "absent" \/ kw = "False"

\* Terminal.width: the columns of the window.
WinCols == 3

\* Line 466: `width is None and self.width or width`.
EffectiveWidth(w) == IF w = None /\ WinCols # 0 THEN WinCols ELSE w

\* Lines 467-474 of Terminal.wrap: for each line of the text, the lines
\* the wrapper makes of the text, or one empty string for a blank line.
RECURSIVE wrap_lines(_, _, _, _)
wrap_lines(ls, s, w, kw) ==
    IF ls = <<>> THEN <<>>
    ELSE (IF ~IsBlank(Head(ls)) THEN SequenceTextWrapper_wrap(s, w, kw)
          ELSE << <<>> >>)
             \o wrap_lines(Tail(ls), s, w, kw)

\* Terminal.wrap(text, width, **kwargs), with kw the keyword argument
\* break_long_words: "absent", or "True" or "False" for a value that is.
wrap(s, w, kw) ==
    IF ~break_long_words_unset(kw)
    THEN [how |-> "AssertionError", lines |-> <<>>]
    ELSE [how |-> "returned",
          lines |-> wrap_lines(splitlines(s), s, EffectiveWidth(w), kw)]

\* The program calls term.wrap with the arguments it has.
Wrap ==
    /\ outcome = NoOutcome
    /\ LET r == wrap(arg_text, arg_width, kwargs)
       IN  /\ result' = r.lines
           /\ outcome' = [op |-> "wrap", how |-> r.how]
    /\ UNCHANGED <<ctorVars, kbdVars, frameVars, ret, unreturned, misreturned,
                   obs, useVars, thr, textArgs, calls>>

\* The characters of the texts wrapped.
WrapChars == {"a", " ", "\n"}

\* A Terminal has been constructed and the arguments of wrap chosen.
InitWrap ==
    /\ Constructed({<<"None", "False">>})
    /\ arg_text \in Texts(WrapChars, MaxLen)
    /\ arg_width \in {None} \cup 1..MaxWidth
    /\ kwargs \in {"absent", "False", "True"}
    /\ arg_maxsplit = None
    /\ arg_fillchar = " "
    /\ calls = <<>>
    /\ result = <<>>

NextWrap == Wrap

SpecWrap == InitWrap /\ [][NextWrap]_vars

\* What wrapping each line by itself gives.
RECURSIVE C18_EachLine(_, _, _)
C18_EachLine(ls, w, kw) ==
    IF ls = <<>> THEN <<>>
    ELSE (IF IsBlank(Head(ls)) THEN << <<>> >>
          ELSE SequenceTextWrapper_wrap(Head(ls), w, kw))
             \o C18_EachLine(Tail(ls), w, kw)

\* C18: the list wrap returns is, line after line of the text, what
\* wrapping that line alone gives, a blank line giving one empty string.
C18_WrapsEachLineAlone ==
    outcome = [op |-> "wrap", how |-> "returned"] =>
        result = C18_EachLine(splitlines(arg_text), EffectiveWidth(arg_width),
                              kwargs)

\* C19: wrap called with break_long_words true raises AssertionError and
\* returns nothing; called without it or with a false value it returns.
C19_BreakLongWordsRejected ==
    outcome.op = "wrap" =>
        /\ kwargs = "True" => outcome.how = "AssertionError" /\ result = <<>>
        /\ kwargs \in {"absent", "False"} => outcome.how = "returned"
C19_Witness ==
    /\ outcome = [op |-> "wrap", how |-> "AssertionError"]
    /\ kwargs = "True"
    /\ arg_text = <<"a", " ", "a">>
    /\ result = <<>>

----
\* Terminal.split_seqs. Its code is not in this repository's sources; it is
\* modelled from the specification: at each offset the longest known
\* sequence, else one character.

\* The characters of the texts split: the escape character, the characters
\* of the sequences below, and a letter.
SplitChars == {"ESC", "[", "7", "C", "A"}

\* The sequences the terminal knows: save (ESC 7), move_right without a
\* parameter (ESC [ C) and with one (ESC [ digits C).
IsKnownSequence(s) ==
    \/ s = <<"ESC", "7">>
    \/ s = <<"ESC", "[", "C">>
    \/ /\ Len(s) >= 4
       /\ s[1] = "ESC"
       /\ s[2] = "["
       /\ \A i \in 3..(Len(s) - 1) : s[i] = "7"
       /\ s[Len(s)] = "C"

\* A match that runs from an escape character to the end of the text.
MatchLenToEnd(s) == IF s[1] = "ESC" THEN Len(s) ELSE 0

\* The length of the longest known sequence s begins with, 0 when none.
MatchLen(s) ==
    LET ns == {n \in 1..Len(s) : IsKnownSequence(SubSeq(s, 1, n))}
    IN  IF ns = {} THEN 0 ELSE CHOOSE n \in ns : \A m \in ns : m <= n

\* A count of splits that is never used up.
SplitsLeftForever(maxsplit) == IF maxsplit = None THEN None ELSE maxsplit + 1

\* The splits still allowed after one token, given those allowed before it.
SplitsLeft(maxsplit) == IF maxsplit = None THEN None ELSE maxsplit - 1

\* split_seqs(text, maxsplit): the tokens of the text from left to right;
\* after maxsplit tokens what is left is one last token (None: no limit).
RECURSIVE split_seqs(_, _)
split_seqs(s, maxsplit) ==
    IF s = <<>> THEN <<>>
    ELSE IF maxsplit = 0 THEN <<s>>
    ELSE LET n == IF MatchLen(s) > 0 THEN MatchLen(s) ELSE 1
         IN  <<SubSeq(s, 1, n)>>
                 \o split_seqs(SubSeq(s, n + 1, Len(s)), SplitsLeft(maxsplit))

\* The program calls list(term.split_seqs(text)) or
\* list(term.split_seqs(text, maxsplit)).
SplitSeqs ==
    /\ outcome = NoOutcome
    /\ result' = split_seqs(arg_text, arg_maxsplit)
    /\ outcome' = [op |-> "split_seqs", how |-> "returned"]
    /\ UNCHANGED <<ctorVars, kbdVars, frameVars, ret, unreturned, misreturned,
                   obs, useVars, thr, textArgs, calls>>

\* A styling Terminal has been constructed and the text chosen.
InitSplit ==
    /\ Constructed({<<"None", "False">>})
    /\ arg_text \in Texts(SplitChars, MaxLen)
    /\ arg_width = 0
    /\ kwargs = "absent"
    /\ arg_maxsplit \in {None} \cup 0..MaxLen
    /\ arg_fillchar = " "
    /\ calls = <<>>
    /\ result = <<>>

NextSplit == SplitSeqs

SpecSplit == InitSplit /\ [][NextSplit]_vars

\* C20: the tokens of split_seqs(t), one after another, are t, and each
\* token is one known sequence or one character.
C20_SplitRoundTrip ==
    outcome.op = "split_seqs" /\ arg_maxsplit = None =>
        /\ Concat(result) = arg_text
        /\ \A i \in 1..Len(result) :
              IsKnownSequence(result[i]) \/ Len(result[i]) = 1
C20_Witness ==
    /\ outcome.op = "split_seqs"
    /\ arg_maxsplit = None
    /\ arg_text = <<"A", "ESC", "7", "A">>
    /\ result = << <<"A">>, <<"ESC", "7">>, <<"A">> >>

\* C21: split_seqs(t, n) gives at most n + 1 tokens; its first n tokens are
\* the first n tokens of the unlimited split; when the unlimited split has
\* more than n tokens the last one is all the rest of the text, whole; and
\* the tokens one after another are t.
C21_MaxSplits ==
    outcome.op = "split_seqs" /\ arg_maxsplit # None =>
        LET n == arg_maxsplit
            full == split_seqs(arg_text, None)
        IN  /\ Len(result) <= n + 1
            /\ \A i \in 1..n : i <= Len(full) =>
                  i <= Len(result) /\ result[i] = full[i]
            /\ Len(full) > n =>
                  /\ Len(result) = n + 1
                  /\ result[n + 1] = Concat(SubSeq(full, n + 1, Len(full)))
            /\ Len(full) <= n => result = full
            /\ Concat(result) = arg_text
C21_Witness ==
    /\ outcome.op = "split_seqs"
    /\ arg_maxsplit = 1
    /\ arg_text = <<"ESC", "7", "A", "A">>
    /\ result = << <<"ESC", "7">>, <<"A", "A">> >>

----
\* Measuring and truncating text. The sequences module is not in this
\* repository's sources: its operations are modelled from the specification
\* and from what the tests in src/tests require of them.

\* The characters of the texts measured: the escape character, characters
\* that are ordinary by themselves and parts of the known sequences after
\* it, a double-width glyph, and backspace.
MeasureChars == {"ESC", "7", "[", "C", "W", "BS"}

\* max(wcwidth(c), 0): the columns a character takes; control characters
\* take none.
wcwidth(c) ==
    IF c = "W" THEN 2 ELSE IF c \in {"ESC", "BS"} THEN 0 ELSE 1

\* The number the digits spell.
RECURSIVE DigitsValue(_)
DigitsValue(ds) ==
    IF ds = <<>> THEN 0
    ELSE 10 * DigitsValue(SubSeq(ds, 1, Len(ds) - 1))
             + (IF ds[Len(ds)] = "7" THEN 7 ELSE 0)

\* The columns a token moves the cursor without printing: backspace one to
\* the left, move_right one or its parameter to the right, any other none.
horizontal_distance(tok) ==
    IF tok = <<"BS">> THEN 0 - 1
    ELSE IF tok = <<"ESC", "[", "C">> THEN 1
    ELSE IF IsKnownSequence(tok) /\ Len(tok) >= 4
    THEN DigitsValue(SubSeq(tok, 3, Len(tok) - 1))
    ELSE 0

\* The tokens without the last n that are not sequences (without all of
\* them when there are fewer).
RECURSIVE DropLastLiterals(_, _)
DropLastLiterals(toks, n) ==
    IF n = 0 \/ \A i \in 1..Len(toks) : IsKnownSequence(toks[i]) THEN toks
    ELSE LET i == CHOOSE j \in 1..Len(toks) :
                      /\ ~IsKnownSequence(toks[j])
                      /\ \A k \in (j + 1)..Len(toks) : IsKnownSequence(toks[k])
         IN  DropLastLiterals(SubSeq(toks, 1, i - 1)
                                  \o SubSeq(toks, i + 1, Len(toks)), n - 1)

\* Sequence.padd(strip), on tokens: the text as it shows once the cursor
\* movements in it are carried out: a movement to the right becomes spaces,
\* one to the left removes what was printed before it; other sequences
\* stay, unless strip.
RECURSIVE padd_(_, _, _)
padd_(toks, outp, strip) ==
    IF toks = <<>> THEN outp
    ELSE LET tok == Head(toks)
             d == horizontal_distance(tok)
         IN  padd_(Tail(toks),
                   IF d > 0 THEN outp \o [i \in 1..d |-> <<" ">>]
                   ELSE IF d < 0 THEN DropLastLiterals(outp, 0 - d)
                   ELSE IF IsKnownSequence(tok) /\ strip THEN outp
                   ELSE Append(outp, tok),
                   strip)
padd(s, strip) == padd_(split_seqs(s, None), <<>>, strip)

\* The columns of the characters of s.
RECURSIVE SumWidth(_)
SumWidth(s) == IF s = <<>> THEN 0 ELSE wcwidth(Head(s)) + SumWidth(Tail(s))

\* A measurement that leaves the sequences in the text it measures.
lengthStripNot == FALSE

\* Sequence.length() measures the text padded and stripped of sequences.
lengthStrip == TRUE

\* Sequence(text, term).length().
Sequence_length(s) == SumWidth(Concat(padd(s, lengthStrip)))

\* Terminal.length(text).
length(s) == Sequence_length(s)

\* A cut that lets a glyph through when its first column fits.
OverflowsPastHalf(cur, target) == cur > target + 1

\* A cut that drops the character that reaches the width.
OverflowsAtTarget(cur, target) == cur >= target

\* `current_width > target_width`: the character does not fit.
Overflows(cur, target) == cur > target

\* A cut that drops the sequences after it.
RestSequencesNone(toks) == <<>>

\* The sequences among the tokens after the cut.
RestSequences(toks) == SelectSeq(toks, IsKnownSequence)

\* Sequence.truncate(width), on the tokens of the padded text: characters
\* are kept until one does not fit; sequences are kept, those after the
\* cut too.
RECURSIVE truncate_(_, _, _)
truncate_(toks, cur, target) ==
    IF toks = <<>> THEN <<>>
    ELSE IF IsKnownSequence(Head(toks))
    THEN <<Head(toks)>> \o truncate_(Tail(toks), cur, target)
    ELSE LET c == cur + SumWidth(Head(toks))
         IN  IF Overflows(c, target) THEN RestSequences(Tail(toks))
             ELSE <<Head(toks)>> \o truncate_(Tail(toks), c, target)

\* Terminal.truncate(text, width): the padded text is split into tokens
\* anew and cut; the width is that of the window when None.
truncate(s, w) ==
    Concat(truncate_(split_seqs(Concat(padd(s, FALSE)), None), 0,
                     IF w = None THEN WinCols ELSE w))

\* The program calls term.length(text).
Length ==
    /\ outcome = NoOutcome
    /\ result' = length(arg_text)
    /\ outcome' = [op |-> "length", how |-> "returned"]
    /\ UNCHANGED <<ctorVars, kbdVars, frameVars, ret, unreturned, misreturned,
                   obs, useVars, thr, textArgs, calls>>

\* The program calls term.truncate(text, width).
Truncate ==
    /\ outcome = NoOutcome
    /\ result' = truncate(arg_text, arg_width)
    /\ outcome' = [op |-> "truncate", how |-> "returned"]
    /\ UNCHANGED <<ctorVars, kbdVars, frameVars, ret, unreturned, misreturned,
                   obs, useVars, thr, textArgs, calls>>

\* A styling Terminal has been constructed and the text chosen, and a
\* width: None, one up to MaxWidth, the width the text measures or one
\* column less.
InitMeasure ==
    /\ Constructed({<<"None", "False">>})
    /\ arg_text \in Texts(MeasureChars, MaxLen)
    /\ arg_width \in ({None} \cup 0..MaxWidth)
                         \cup ({length(arg_text), length(arg_text) - 1}
                                   \ {None})
    /\ kwargs = "absent"
    /\ arg_maxsplit = None
    /\ arg_fillchar = " "
    /\ calls = <<>>
    /\ result = <<>>

NextMeasure == Length \/ Truncate

SpecMeasure == InitMeasure /\ [][NextMeasure]_vars

\* The running width of the claim as it was stated: a character adds its
\* columns, a backspace takes one away down to 0, a sequence adds nothing.
RECURSIVE C26_Running(_, _)
C26_Running(toks, w) ==
    IF toks = <<>> THEN w
    ELSE C26_Running(Tail(toks),
                     IF Head(toks) = <<"BS">> THEN (IF w > 0 THEN w - 1 ELSE 0)
                     ELSE IF IsKnownSequence(Head(toks)) THEN w
                     ELSE w + SumWidth(Head(toks)))

\* The columns of the characters measured so far, one entry a character: a
\* character adds its columns, a backspace removes the last entry if there
\* is one, move_right adds as many single columns as it moves, any other
\* sequence adds nothing.
RECURSIVE C26_Cols(_, _)
C26_Cols(toks, cols) ==
    IF toks = <<>> THEN cols
    ELSE LET tok == Head(toks)
         IN  C26_Cols(Tail(toks),
                 IF tok = <<"BS">>
                 THEN (IF cols = <<>> THEN cols
                       ELSE SubSeq(cols, 1, Len(cols) - 1))
                 ELSE IF IsKnownSequence(tok)
                 THEN (IF tok = <<"ESC", "7">> THEN cols
                       ELSE cols \o [i \in 1..horizontal_distance(tok) |-> 1])
                 ELSE Append(cols, SumWidth(tok)))

RECURSIVE C26_Sum(_)
C26_Sum(cols) == IF cols = <<>> THEN 0 ELSE Head(cols) + C26_Sum(Tail(cols))

TruncateWidth == IF arg_width = None THEN WinCols ELSE arg_width

\* The columns of the first k characters the text shows.
RECURSIVE C22_Prefix(_, _)
C22_Prefix(toks, k) ==
    IF k = 0 THEN 0 ELSE C22_Prefix(toks, k - 1) + SumWidth(toks[k])

\* C22: what truncate(t, n) returns measures at most n columns; it measures
\* exactly the smaller of n and the width of t when some number of the
\* leading characters t shows fills exactly that many columns, that is when
\* no double-width glyph straddles the cut, and less otherwise.
C22_TruncateWidth ==
    outcome.op = "truncate" =>
        LET n == TruncateWidth
            m == IF length(arg_text) < n THEN length(arg_text) ELSE n
            shown == padd(arg_text, TRUE)
            fits == \E k \in 0..Len(shown) : C22_Prefix(shown, k) = m
        IN  /\ length(result) <= n
            /\ fits => length(result) = m
            /\ ~fits => length(result) < m

\* The text holds no backspace and no sequence that moves the cursor in
\* its line.
C23_Unmoved(s) ==
    LET toks == split_seqs(s, None)
    IN  \A i \in 1..Len(toks) : horizontal_distance(toks[i]) = 0

\* C23 as stated: truncate(t, w) is t for every text t of width w.
C23_Original ==
    outcome.op = "truncate" /\ arg_width = length(arg_text) =>
        result = arg_text

\* C23: truncate(t, w) is t for every text t of width w that holds no
\* backspace and no sequence moving the cursor in its line.
C23_IdentityAtFullWidth ==
    outcome.op = "truncate" /\ arg_width = length(arg_text)
            /\ C23_Unmoved(arg_text) =>
        result = arg_text
C23_Witness ==
    /\ outcome.op = "truncate"
    /\ arg_text = <<"ESC", "7", "W", "7">>
    /\ arg_width = 3
    /\ result = arg_text

\* The sequences among the tokens of s, and the other tokens.
C24_Sequences(s) == SelectSeq(split_seqs(s, None), IsKnownSequence)
C24_IsLiteral(tok) == ~IsKnownSequence(tok)
C24_Literals(s) == SelectSeq(split_seqs(s, None), C24_IsLiteral)

\* The tokens without the characters after the first k of them.
RECURSIVE C24_Keep(_, _)
C24_Keep(toks, k) ==
    IF toks = <<>> THEN <<>>
    ELSE IF IsKnownSequence(Head(toks))
    THEN <<Head(toks)>> \o C24_Keep(Tail(toks), k)
    ELSE IF k > 0 THEN <<Head(toks)>> \o C24_Keep(Tail(toks), k - 1)
    ELSE C24_Keep(Tail(toks), 0)

\* C24 as stated: the sequences of what truncate returns are the sequences
\* of the text, each as it was and in their order.
C24_Original ==
    outcome.op = "truncate" =>
        C24_Sequences(result) = C24_Sequences(arg_text)

\* C24: of a text that holds no backspace and no sequence moving the cursor
\* in its line, truncate returns every sequence as it was and in its place,
\* those after the cut too, and the leading characters that fit the width
\* counted without the sequences: the text less the characters from the
\* first that does not fit.
C24_SequencesKept ==
    outcome.op = "truncate" /\ C23_Unmoved(arg_text) =>
        LET toks == split_seqs(arg_text, None)
            lits == C24_Literals(arg_text)
        IN  /\ C24_Sequences(result) = C24_Sequences(arg_text)
            /\ \E k \in 0..Len(lits) :
                   /\ result = Concat(C24_Keep(toks, k))
                   /\ C22_Prefix(lits, k) <= TruncateWidth
                   /\ k < Len(lits) => C22_Prefix(lits, k + 1) > TruncateWidth
C24_Witness ==
    /\ outcome.op = "truncate"
    /\ arg_text = <<"7", "7", "ESC", "7">>
    /\ arg_width = 1
    /\ result = <<"7", "ESC", "7">>

\* The text ends in a double-width glyph and truncate was asked for one
\* column less than it measures.
C25_Case ==
    /\ outcome.op = "truncate"
    /\ arg_text # <<>>
    /\ arg_text[Len(arg_text)] = "W"
    /\ arg_width = length(arg_text) - 1

\* C25 as stated: of every text ending in a double-width glyph, truncate at
\* one column less than its width returns the text without that glyph.
C25_Original ==
    C25_Case => result = SubSeq(arg_text, 1, Len(arg_text) - 1)

\* C25: of a text ending in a double-width glyph that holds no backspace
\* and no sequence moving the cursor in its line, truncate at one column
\* less than its width returns the text without that glyph, and never one
\* column of it.
C25_WideGlyphDroppedWhole ==
    C25_Case /\ C23_Unmoved(arg_text) =>
        /\ result = SubSeq(arg_text, 1, Len(arg_text) - 1)
        /\ length(result) = length(arg_text) - 2
C25_Witness ==
    /\ C25_Case
    /\ arg_text = <<"7", "ESC", "7", "W">>
    /\ arg_width = 2
    /\ result = <<"7", "ESC", "7">>

----
\* Padding text to a width.

\* n copies of the fill character.
Fillers(fillchar, n) == [i \in 1..n |-> fillchar]

\* max(0, width - self.length()): the columns to fill.
PadColumns(s, w) == IF w > length(s) THEN w - length(s) ELSE 0

\* Sequence.ljust(width, fillchar): the fill after the text.
Sequence_ljust(s, w, fillchar) == s \o Fillers(fillchar, PadColumns(s, w))

\* Sequence.rjust(width, fillchar): the fill before the text.
Sequence_rjust(s, w, fillchar) == Fillers(fillchar, PadColumns(s, w)) \o s

\* Sequence.center(width, fillchar): half the fill before the text, rounded
\* down, the rest after it.
Sequence_center(s, w, fillchar) ==
    LET d == PadColumns(s, w)
    IN  Fillers(fillchar, d \div 2) \o s \o Fillers(fillchar, d - d \div 2)

\* Lines 411-412, 422-423, 433-434: `if width is None: width = self.width`.
PadWidth(w) == IF w = None THEN WinCols ELSE w

\* Terminal.ljust, Terminal.rjust, Terminal.center.
ljust(s, w, fillchar) == Sequence_ljust(s, PadWidth(w), fillchar)
rjust(s, w, fillchar) == Sequence_rjust(s, PadWidth(w), fillchar)
center(s, w, fillchar) == Sequence_center(s, PadWidth(w), fillchar)

\* The program calls term.ljust(text, width, fillchar).
Ljust ==
    /\ outcome = NoOutcome
    /\ result' = ljust(arg_text, arg_width, arg_fillchar)
    /\ outcome' = [op |-> "ljust", how |-> "returned"]
    /\ UNCHANGED <<ctorVars, kbdVars, frameVars, ret, unreturned, misreturned,
                   obs, useVars, thr, textArgs, calls>>

\* The program calls term.rjust(text, width, fillchar).
Rjust ==
    /\ outcome = NoOutcome
    /\ result' = rjust(arg_text, arg_width, arg_fillchar)
    /\ outcome' = [op |-> "rjust", how |-> "returned"]
    /\ UNCHANGED <<ctorVars, kbdVars, frameVars, ret, unreturned, misreturned,
                   obs, useVars, thr, textArgs, calls>>

\* The program calls term.center(text, width, fillchar).
Center ==
    /\ outcome = NoOutcome
    /\ result' = center(arg_text, arg_width, arg_fillchar)
    /\ outcome' = [op |-> "center", how |-> "returned"]
    /\ UNCHANGED <<ctorVars, kbdVars, frameVars, ret, unreturned, misreturned,
                   obs, useVars, thr, textArgs, calls>>

\* The characters of the texts padded, and the fill characters: the
\* default, a space, and a double-width glyph.
PadChars == {"ESC", "7", "W", "BS"}
FillChars == {" ", "W"}

\* A styling Terminal has been constructed and the arguments chosen.
InitPad ==
    /\ Constructed({<<"None", "False">>})
    /\ arg_text \in Texts(PadChars, MaxLen)
    /\ arg_width \in {None} \cup 0..MaxWidth
    /\ arg_fillchar \in FillChars
    /\ kwargs = "absent"
    /\ arg_maxsplit = None
    /\ calls = <<>>
    /\ result = <<>>

NextPad == Ljust \/ Rjust \/ Center

SpecPad == InitPad /\ [][NextPad]_vars

\* What the method that was called makes of s with the same width and fill.
C27_PadAgain(s) ==
    IF outcome.op = "ljust" THEN ljust(s, arg_width, arg_fillchar)
    ELSE IF outcome.op = "rjust" THEN rjust(s, arg_width, arg_fillchar)
    ELSE center(s, arg_width, arg_fillchar)

\* C27: padding what ljust, rjust or center returned again, to the same
\* width with the same fill, changes nothing; and a text that measures the
\* width or more is returned as it is.
C27_PadIdempotent ==
    outcome.op \in {"ljust", "rjust", "center"} =>
        /\ C27_PadAgain(result) = result
        /\ length(arg_text) >= PadWidth(arg_width) => result = arg_text

----
\* Formatting values and their calls. The formatters module is not in this
\* repository's sources: what it does is modelled from the specification
\* and from what the tests in src/tests require of it. A text is here a
\* sequence of tokens: [cap |-> c] for the escape sequence of capability c,
\* [lit |-> x] for a character.

\* An attribute name is the sequence of the segments its underscores part.
\* formatters.split_compound: a segment after `on` belongs to it.
RECURSIVE split_compound_(_, _)
split_compound_(segs, merged) ==
    IF segs = <<>> THEN merged
    ELSE IF merged # <<>> /\ merged[Len(merged)] = <<"on">>
    THEN split_compound_(Tail(segs),
                         [merged EXCEPT ![Len(merged)] = <<"on", Head(segs)>>])
    ELSE split_compound_(Tail(segs), Append(merged, <<Head(segs)>>))
split_compound(segs) == split_compound_(segs, <<>>)

\* formatters.COMPOUNDABLES: the styles and colours a compound is made of.
COMPOUNDABLES ==
    {<<"bold">>, <<"underline">>, <<"green">>, <<"on", "green">>}

\* A compound is any name with a known component.
IsCompoundAny(segs) ==
    \E i \in 1..Len(split_compound(segs)) :
        split_compound(segs)[i] \in COMPOUNDABLES

\* `all(fmt in COMPOUNDABLES for fmt in split_compound(attr))`
IsCompound(segs) ==
    \A i \in 1..Len(split_compound(segs)) :
        split_compound(segs)[i] \in COMPOUNDABLES

\* The sequences of the components, one after another.
CompoundText(comps) ==
    [i \in 1..Len(comps) |->
        [cap |-> IF comps[i] = <<"on", "green">> THEN "on_green"
                 ELSE comps[i][1]]]

\* formatters.resolve_attribute(term, attr), for the name of a style: the
\* formatting value of the components' sequences when all are known, else
\* a parameterizing value of the (empty) capability of that name.
resolve_attribute_named(self, segs) ==
    IF IsCompound(segs)
    THEN [type |-> "FormattingString",
          text |-> CompoundText(split_compound(segs)), name |-> segs]
    ELSE [type |-> "ParameterizingString", text |-> <<>>, name |-> segs]

\* A __getattr__ that resolves the name whether or not the Terminal styles.
getattr_namedNoShortCircuit(self, segs) == resolve_attribute_named(self, segs)

\* Terminal.__getattr__ (lines 197-203), for the name of a style.
getattr_named(self, segs) ==
    IF ~self.does_styling
    THEN [type |-> "NullCallableString", text |-> <<>>, name |-> <<>>]
    ELSE resolve_attribute_named(self, segs)

\* Terminal.color (lines 333-347) called with a colour number: the null
\* value without styling, else the value of the colour's sequence.
color(self, n) ==
    IF ~self.does_styling
    THEN [type |-> "NullCallableString", text |-> <<>>, name |-> <<>>]
    ELSE [type |-> "FormattingString", text |-> <<[cap |-> "setaf", n |-> n]>>,
          name |-> <<"color">>]

\* A reset that is not followed by the style.
RefreshNone(fmt, norm) == norm

\* `self._normal + self`: what each reset within an argument becomes.
Refresh(fmt, norm) == norm \o fmt

\* `_refresh.join(ucs_part.split(self._normal))`
ReplaceNormal(s, fmt, norm) ==
    Concat([i \in 1..Len(s) |->
               IF <<s[i]>> = norm THEN Refresh(fmt, norm) ELSE <<s[i]>>])

\* A null value that answers with what it is, the empty string.
NullCallableString_callEmpty(args) == <<>>

\* NullCallableString.__call__(*args), its arguments being texts: they are
\* joined.
NullCallableString_call(args) == Concat(args)

\* FormattingString.__call__(*args), its arguments being texts: the style,
\* the arguments, each reset in them followed by the style again, and the
\* reset; the arguments alone when the style or the reset is empty.
FormattingString_call(fmt, norm, args) ==
    IF fmt # <<>> /\ norm # <<>>
    THEN fmt \o Concat([i \in 1..Len(args) |-> ReplaceNormal(args[i], fmt, norm)])
             \o norm
    ELSE fmt \o Concat(args)

\* The call of a formatting value with texts: what it returns, or the error
\* it raises: a parameterizing value cannot take texts, and says so naming
\* the capability it was made for; called with nothing it returns the
\* value of its sequence, here empty.
FormatCall(self, v, args) ==
    IF v.type = "NullCallableString"
    THEN [how |-> "returned", val |-> NullCallableString_call(args),
          unknown |-> <<>>]
    ELSE IF v.type = "FormattingString"
    THEN [how |-> "returned",
          val |-> FormattingString_call(v.text,
                                        resolve_capability(self, "normal"), args),
          unknown |-> <<>>]
    ELSE IF args = <<>>
    THEN [how |-> "returned", val |-> <<>>, unknown |-> <<>>]
    ELSE [how |-> "TypeError", val |-> <<>>, unknown |-> v.name]

\* The call of a formatting value with a number: the null value answers
\* with the empty string, a parameterizing value with the value of its
\* (empty) sequence, and a formatting value takes texts only.
FormatCallNumber(self, v) ==
    IF v.type = "FormattingString"
    THEN [how |-> "TypeError", val |-> <<>>, unknown |-> <<>>]
    ELSE [how |-> "returned", val |-> <<>>, unknown |-> <<>>]

\* The names of the formatting values the program calls, and the values:
\* those the Terminal has under the names, and color(1).
FormatNames == {<<"green">>, <<"bold">>, <<"underline">>, <<"bold", "green">>}
FormatValues(self) ==
    {getattr_named(self, n) : n \in FormatNames} \cup {color(self, 1)}

\* The characters of the texts formatted.
FormatChars == {"a", "b"}

\* The calls and texts in the arguments.
RECURSIVE SumNodes(_)
SumNodes(args) ==
    IF args = <<>> THEN 0 ELSE Head(args).nodes + SumNodes(Tail(args))

\* The calls and texts of the expression evaluated so far.
RECURSIVE Nodes(_)
Nodes(frames) ==
    IF frames = <<>> THEN 0
    ELSE 1 + SumNodes(Head(frames).args) + Nodes(Tail(frames))

\* The frame of the innermost call with one more argument.
WithArg(frames, arg) ==
    [frames EXCEPT ![Len(frames)].args = Append(@, arg)]

\* The innermost call has returned what r says: to the program when it is
\* the outermost, which is then kept as the call that was made; else as an
\* argument of the call around it. An error ends the whole expression.
Returned(r, expr) ==
    IF r.how # "returned"
    THEN /\ outcome' = [op |-> "call", how |-> r.how]
         /\ result' = r.unknown
         /\ calls' = <<calls[1]>>
    ELSE IF Len(calls) = 1
    THEN /\ outcome' = [op |-> "call", how |-> "returned"]
         /\ result' = r.val
         /\ calls' = <<[calls[1] EXCEPT !.closed = expr]>>
    ELSE /\ calls' = WithArg(SubSeq(calls, 1, Len(calls) - 1),
                             [expr |-> expr, val |-> r.val,
                              nodes |-> 1 + SumNodes(calls[Len(calls)].args)])
         /\ UNCHANGED <<outcome, result>>

FormatFrame == <<ctorVars, kbdVars, frameVars, ret, unreturned, misreturned,
                 obs, useVars, thr, textArgs>>

\* The program begins a call of a formatting value of the Terminal: its
\* arguments are evaluated next.
OpenCall(v) ==
    /\ outcome = NoOutcome
    /\ Nodes(calls) < MaxNodes
    /\ calls' = Append(calls, [fmt |-> v, args |-> <<>>, closed |-> <<>>])
    /\ UNCHANGED <<FormatFrame, outcome, result>>

\* The next argument of the innermost call is the text x.
AddText(x) ==
    /\ outcome = NoOutcome
    /\ calls # <<>>
    /\ Nodes(calls) < MaxNodes
    /\ calls' = WithArg(calls, [expr |-> <<[lit |-> x]>>,
                                val |-> <<[lit |-> x]>>, nodes |-> 1])
    /\ UNCHANGED <<FormatFrame, outcome, result>>

\* The innermost call is made with the arguments evaluated, all texts.
CloseCall ==
    /\ outcome = NoOutcome
    /\ calls # <<>>
    /\ LET f == calls[Len(calls)]
           vals == [i \in 1..Len(f.args) |-> f.args[i].val]
           exprs == [i \in 1..Len(f.args) |-> f.args[i].expr]
       IN  Returned(FormatCall(term, f.fmt, vals),
                    <<[fmt |-> f.fmt, args |-> exprs]>>)
    /\ UNCHANGED FormatFrame

\* The innermost call is made with a number for its only argument.
CallNumber ==
    /\ outcome = NoOutcome
    /\ calls # <<>>
    /\ calls[Len(calls)].args = <<>>
    /\ Returned(FormatCallNumber(term, calls[Len(calls)].fmt),
                <<[fmt |-> calls[Len(calls)].fmt, args |-> << <<[num |-> 1]>> >>]>>)
    /\ UNCHANGED FormatFrame

\* The Terminals whose values are called: one that styles and one that
\* does not.
FormatTerminals == {<<"None", "False">>, <<"StringIO", "False">>}

InitFormat == Constructed(FormatTerminals) /\ TextInit

NextFormat ==
    \/ \E v \in FormatValues(term) : OpenCall(v)
    \/ \E x \in FormatChars : AddText(x)
    \/ CloseCall
    \/ CallNumber

SpecFormat == InitFormat /\ [][NextFormat]_vars

\* The text of an expression as the claim gives it: the style, the
\* arguments one after another (each kept as a tuple of one), the reset,
\* and after the reset the styles of the calls around it, the outermost
\* first.
RECURSIVE C28_Render(_, _)
RECURSIVE C28_RenderArgs(_, _)
C28_Render(e, around) ==
    IF "lit" \in DOMAIN e THEN <<e>>
    ELSE e.fmt.text \o C28_RenderArgs(e.args, around \o e.fmt.text)
             \o resolve_capability(term, "normal") \o around
C28_RenderArgs(es, around) ==
    IF es = <<>> THEN <<>>
    ELSE C28_Render(Head(es)[1], around) \o C28_RenderArgs(Tail(es), around)

\* C28: what an expression of styles called on texts and on one another
\* returns on a styling Terminal is, for each call, its style, its
\* arguments in their order, and the reset followed by the styles of the
\* calls around it, the outermost first: after each inner reset the outer
\* style is on again before the text that follows.
C28_NestedFormatting ==
    outcome = [op |-> "call", how |-> "returned"] /\ term.does_styling =>
        result = C28_Render(calls[1].closed[1], <<>>)
C28_Witness ==
    /\ outcome = [op |-> "call", how |-> "returned"]
    /\ result = <<[cap |-> "green"], [cap |-> "bold"], [lit |-> "b"],
                  [cap |-> "normal"], [cap |-> "green"], [lit |-> "a"],
                  [cap |-> "normal"]>>

\* The texts of an expression one after another, and nothing for a number.
RECURSIVE C30_Plain(_)
RECURSIVE C30_PlainArgs(_)
C30_Plain(e) ==
    IF "lit" \in DOMAIN e THEN <<e>>
    ELSE IF "num" \in DOMAIN e THEN <<>>
    ELSE C30_PlainArgs(e.args)
C30_PlainArgs(es) ==
    IF es = <<>> THEN <<>>
    ELSE C30_Plain(Head(es)[1]) \o C30_PlainArgs(Tail(es))

\* C30: on a Terminal that does no styling every call of a formatting
\* value returns, and an expression of such calls returns its texts one
\* after another with no sequence among them: the empty string when a
\* value is called with a number or with nothing.
C30_NoStylingIdentity ==
    outcome.op = "call" /\ ~term.does_styling =>
        /\ outcome.how = "returned"
        /\ result = C30_Plain(calls[1].closed[1])
C30_Witness ==
    /\ outcome = [op |-> "call", how |-> "returned"]
    /\ ~term.does_styling
    /\ result = <<[lit |-> "a"], [lit |-> "b"]>>
    /\ Len(calls[1].closed[1].args) = 2
    /\ "fmt" \in DOMAIN calls[1].closed[1].args[2][1]

\* The segments of the names resolved, and the names: every name of up to
\* MaxLen segments.
Segments == {"bold", "green", "on", "misspelled"}
ResolveNames == Texts(Segments, MaxLen) \ {<<>>}

\* A Terminal has been constructed and the program has got the value of a
\* name from it, which it is about to call.
InitResolve ==
    /\ Constructed(FormatTerminals)
    /\ arg_text = <<>>
    /\ arg_width = 0
    /\ kwargs = "absent"
    /\ arg_maxsplit = None
    /\ arg_fillchar = " "
    /\ result = <<>>
    /\ \E segs \in ResolveNames :
           calls = <<[fmt |-> getattr_named(term, segs), args |-> <<>>,
                      closed |-> <<>>]>>

NextResolve ==
    \/ \E x \in FormatChars : AddText(x)
    \/ CloseCall
    \/ CallNumber

SpecResolve == InitResolve /\ [][NextResolve]_vars

\* The whole name is made of known components, none of it left over.
RECURSIVE C29_Decomposes(_)
C29_Decomposes(segs) ==
    \/ segs = <<>>
    \/ /\ segs # <<>>
       /\ Head(segs) \in {"bold", "underline", "green"}
       /\ C29_Decomposes(Tail(segs))
    \/ /\ Len(segs) >= 2
       /\ SubSeq(segs, 1, 2) = <<"on", "green">>
       /\ C29_Decomposes(SubSeq(segs, 3, Len(segs)))

\* The sequences of the components of a name so made, in their order.
RECURSIVE C29_Sequences(_)
C29_Sequences(segs) ==
    IF segs = <<>> THEN <<>>
    ELSE IF Head(segs) = "on"
    THEN <<[cap |-> "on_green"]>> \o C29_Sequences(SubSeq(segs, 3, Len(segs)))
    ELSE <<[cap |-> Head(segs)]>> \o C29_Sequences(Tail(segs))

\* C29: on a styling Terminal the value of a name made wholly of known
\* components, called with texts, returns the sequences of all the
\* components in their order, the texts and one reset; the value of any
\* other name, called with a text, raises TypeError naming the name.
C29_CompoundTotal ==
    outcome.op = "call" /\ term.does_styling /\ calls[1].args # <<>> =>
        LET name == calls[1].fmt.name
            texts == Concat([i \in 1..Len(calls[1].args) |->
                                calls[1].args[i].val])
        IN  IF C29_Decomposes(name)
            THEN /\ outcome.how = "returned"
                 /\ result = C29_Sequences(name) \o texts
                                 \o <<[cap |-> "normal"]>>
            ELSE /\ outcome.how = "TypeError"
                 /\ result = name
C29_Witness ==
    /\ outcome = [op |-> "call", how |-> "TypeError"]
    /\ term.does_styling
    /\ calls[1].fmt.name = <<"bold", "misspelled">>
    /\ calls[1].args # <<>>
    /\ result = <<"bold", "misspelled">>

----
\* The claims about the time inkey takes, under SpecKbd.

\* inkey returns at this step, having been called with a finite timeout.
C31_Returns ==
    /\ pc # "idle"
    /\ pc' = "idle"
    /\ outcome' = [op |-> "inkey", how |-> "returned"]
    /\ timeout # None

\* C31 as stated: inkey called with a finite timeout returns no later than
\* timeout after it was called.
C31_Original == [][C31_Returns => now - stime <= timeout]_vars

\* C31: inkey called with a finite timeout returns no later than timeout
\* after it was called unless the keystroke it resolved is Escape; then it
\* has left the wait for a keystroke no later than timeout after the call
\* and returns no later than esc_delay after that, so no later than
\* timeout + esc_delay after the call.
C31_ReturnsInTime ==
    [][C31_Returns =>
          /\ pc = "block" => now - stime <= timeout
          /\ pc = "esc" => /\ esctime - stime <= timeout
                           /\ now - esctime <= esc_delay
          /\ now - stime <= timeout + esc_delay]_vars
C31_Witness ==
    /\ pc = "esc"
    /\ timeout = 0
    /\ esc_delay = MaxDelay
    /\ ks.code = "KEY_ESCAPE"
    /\ now - stime = MaxDelay
    /\ kbhit(term, EscTimeleft) = "False"

----
\* C32: the Escape deadline is measured once, from the moment Escape first
\* resolved, and bytes arriving during the wait do not extend it: while ks is
\* still Escape inkey has waited at most esc_delay since esctime, esctime is
\* never taken again, and when the wait ends every codepoint read past the
\* Escape is in the pending buffer.
C32_State ==
    pc = "esc" => /\ esctime # None
                  /\ now - esctime <= esc_delay
C32_MeasuredOnce ==
    pc = "esc" /\ pc' = "esc" => esctime' = esctime
C32_Retained ==
    pc = "esc" /\ pc' = "idle" /\ ks.code = "KEY_ESCAPE"
        => PopAll(keyboard_buf') = SubSeq(ucs, Len(ks.ucs) + 1, Len(ucs))
C32_EscapeWait ==
    []C32_State /\ [][C32_MeasuredOnce /\ C32_Retained]_vars

\* The same with the retention stated for the calls that return.
C32_RetainedOnReturn ==
    outcome' = [op |-> "inkey", how |-> "returned"] => C32_Retained
C32_EscapeWaitOfReturns ==
    []C32_State /\ [][C32_MeasuredOnce /\ C32_RetainedOnReturn]_vars

----
\* C33: when the pending buffer at the start of an inkey call holds text that
\* resolves to a key other than Escape, the call never waits in select, for
\* every timeout, it returns that key, and the rest of that buffer is pending
\* again, ahead of anything read since.
C33_Buffered ==
    /\ outcome.op = "inkey"
    /\ resolve(obs.call_buf).ucs # <<>>
    /\ resolve(obs.call_buf).code # "KEY_ESCAPE"
C33_NoWait ==
    pc \in {"drain", "block", "esc"} /\ C33_Buffered => ~Blocked
C33_KeyAndRest ==
    /\ ret = resolve(obs.call_buf)
    /\ IsPrefix(Remainder(obs.call_buf, ret), PopAll(keyboard_buf))
C33_BufferedKeyOfReturns ==
    /\ C33_NoWait
    /\ InkeyReturned /\ C33_Buffered => C33_KeyAndRest

----
\* C34: a setupterm that fails during construction is absorbed. The
\* constructor completes, appends the 'Failed to setupterm' warning, sets the
\* Terminal's kind to None and does_styling to False and leaves _CUR_TERM as
\* it was; the Terminal is then a non-styling one: no key table is built and
\* every attribute looked up is the null string.
C34_Fails ==
    /\ nterms' = nterms + 1
    /\ call'.setupterm_ok = "failed"
C34_Step ==
    C34_Fails =>
        /\ warnings' = Append(warnings, [what |-> "setupterm",
                                         kind |-> IF call'.kind \in {"None", ""}
                                                  THEN EnvTerm(environ)
                                                  ELSE call'.kind,
                                         cur |-> _CUR_TERM])
        /\ term'.kind = "None"
        /\ ~term'.does_styling
        /\ _CUR_TERM' = _CUR_TERM
        /\ keymap(term') = {}
        /\ KEY_ESCAPE(term') = "NullCallableString"
        /\ \A a \in Attrs : __getattr__(term', a).type = "NullCallableString"
C34_SetuptermFailureAbsorbed == [][C34_Step]_vars
C34_Witness ==
    /\ nterms = 2
    /\ call.setupterm_ok = "failed"
    /\ call.kind = "bogus"
    /\ call.force_styling = "True"
    /\ Len(warnings) = 2
    /\ term.kind = "None"

----
\* Terminal.number_of_colors.

\* What curses.tigetnum('colors') may answer: -2 (no such capability), -1 (no
\* colour support), 0, and the common counts 8 and 256.
Colors == {-2, -1, 0, 8, 256}

\* curses.tigetnum('colors'), read from the terminfo entry of the process.
tigetnum(env) == env.colors

number_of_colorsUntrimmed(self, env) ==
    IF self.does_styling /\ tigetnum(env) # 0 THEN tigetnum(env) ELSE -1

\* max(0, self.does_styling and curses.tigetnum('colors') or -1): `and`
\* yields does_styling when that is False (written 0, which False equals)
\* and else the capability; `or` replaces a falsy value, False or 0, by -1.
number_of_colors(self, env) ==
    LET anded == IF self.does_styling THEN tigetnum(env) ELSE 0
        ored  == IF anded # 0 THEN anded ELSE -1
    IN  Max(0, ored)

\* The program reads term.number_of_colors.
NumberOfColors ==
    /\ outcome = NoOutcome
    /\ result' = number_of_colors(term, environ)
    /\ outcome' = [op |-> "number_of_colors", how |-> "returned"]
    /\ UNCHANGED <<ctorVars, kbdVars, frameVars, ret, unreturned, misreturned,
                   obs, useVars, thr, textArgs, calls>>

\* One Terminal constructed in a fresh process, with any arguments, in any
\* environment and with any terminfo answer for 'colors'.
InitColors ==
    /\ environ \in [TERM : {"None", "xterm"}, stdout_isatty : BOOLEAN,
                    colors : Colors]
    /\ \E kind \in Kinds, stream \in Streams, force_styling \in ForceStylings :
         LET r == Terminal__init__(kind, stream, force_styling, "None", FALSE,
                                   environ)
         IN  /\ term = r.self
             /\ _CUR_TERM = r.cur
             /\ initialised_setupterm = r.inited
             /\ warnings = r.warned
             /\ call = [kind |-> kind, stream |-> stream,
                        force_styling |-> force_styling,
                        setupterm_ok |-> r.setupterm_ok, cur_before |-> "None"]
    /\ nterms = 1
    /\ KbdInit
    /\ UseInit
    /\ TextInit

NextColors == NumberOfColors

SpecColors == InitColors /\ [][NextColors]_vars

\* C35: number_of_colors is never negative: it is 0 when the Terminal does
\* not do styling or the colors capability is -1, -2 or 0, and else it is the
\* positive value of the capability.
C35_NumberOfColors ==
    outcome.op = "number_of_colors" =>
        /\ result >= 0
        /\ ~term.does_styling \/ tigetnum(environ) \in {-1, -2, 0} => result = 0
        /\ term.does_styling /\ tigetnum(environ) \notin {-1, -2, 0}
               => result = tigetnum(environ) /\ result > 0
C35_Witness ==
    /\ outcome.op = "number_of_colors"
    /\ term.does_styling
    /\ tigetnum(environ) = -2
    /\ result = 0

====
